---- MODULE Spec2Model ----
(***************************************************************************)
(* A model of the springy crate (src/src/lib.rs, src/src/kinematic.rs,     *)
(* src/src/rapier.rs): the Springable and Kinematic implementations for    *)
(* f32, Vec2 and Vec3, Spring and its accessors, Spring::impulse,          *)
(* SpringBreak::impulse, SpringState::impulse and the rapier adapter's     *)
(* mass(); of examples/energy.rs, whose systems evaluate the springs of    *)
(* the world its setup builds and integrate the bodies; and of the caller  *)
(* the specification requires, stepping two bodies joined by a spring.     *)
(*                                                                         *)
(* An f32 is modelled bit for bit as a triple <<s, e, m>> of integers with *)
(* the value (-1)^s * m * 2^e: a normal number has 2^23 <= m < 2^24 and    *)
(* -149 <= e <= 104, a subnormal one e = -149 and m < 2^23, a zero m = 0   *)
(* (so there are two zeros), an infinity is <<s, 128, 0>> and NaN is       *)
(* <<0, 128, 1>>.  Every operation rounds to the nearest f32, ties to      *)
(* even, as IEEE 754 binary32 does.  A Springable value is a tuple of f32: *)
(* one component for f32, two for Vec2, three for Vec3.                    *)
(***************************************************************************)
EXTENDS Integers, Sequences, FiniteSets, TLC

----------------------------------------------------------------------------
(* f32 *)

Abs(n) == IF n < 0 THEN -n ELSE n

Max(a, b) == IF a >= b THEN a ELSE b

\* The number of bits of n, 0 <= n < 2^31.
BitLen4(n) == IF n < 4 THEN (IF n < 2 THEN n ELSE 2) ELSE IF n < 8 THEN 3 ELSE 4
BitLen8(n) == IF n < 16 THEN BitLen4(n) ELSE 4 + BitLen4(n \div 16)
BitLen16(n) == IF n < 256 THEN BitLen8(n) ELSE 8 + BitLen8(n \div 256)
BitLen(n) == IF n < 65536 THEN BitLen16(n) ELSE 16 + BitLen16(n \div 65536)

\* Exponent bounds of the representation: a finite f32 is m * 2^e with
\* MinExp <= e <= MaxExp and m < 2^24; SpecialExp marks infinities and NaN.
MinExp == -(126 + 23)
MaxExp == 127 - 23
SpecialExp == MaxExp + 24
\* The implicit leading bit of a normal significand, and twice that.
Hidden == 2^23
Full == 2 * Hidden

FZero(s) == <<s, MinExp, 0>>
Inf(s) == <<s, SpecialExp, 0>>
INFINITY == Inf(0)
NEG_INFINITY == Inf(1)
NAN == <<0, SpecialExp, 1>>

is_nan(x) == x[2] = SpecialExp /\ x[3] # 0
is_infinite(x) == x[2] = SpecialExp /\ x[3] = 0
is_finite(x) == x[2] # SpecialExp
is_zero(x) == x[2] # SpecialExp /\ x[3] = 0
is_normal(x) == x[2] # SpecialExp /\ x[3] >= Hidden

Xor(s, t) == IF s = t THEN 0 ELSE 1

\* The f32 nearest to (-1)^s * m * 2^e, ties to even, where 0 < m < 2^30;
\* st says that the exact value lies strictly between m * 2^e and
\* (m + 1) * 2^e, and is passed only with m >= 2^25.
RoundShifted(s, m, e, st, sh) ==
    IF sh <= 0
    THEN (IF e + sh > MaxExp THEN Inf(s) ELSE <<s, e + sh, m * 2^(-sh)>>)
    ELSE IF sh > 30 THEN FZero(s)
    ELSE LET q == m \div 2^sh
             r == m % 2^sh
             half == 2^(sh - 1)
             up == r > half \/ (r = half /\ (st \/ q % 2 = 1))
             q1 == IF up THEN q + 1 ELSE q
         IN IF q1 = Full
            THEN (IF e + sh + 1 > MaxExp THEN Inf(s) ELSE <<s, e + sh + 1, Hidden>>)
            ELSE IF e + sh > MaxExp THEN Inf(s) ELSE <<s, e + sh, q1>>

Round(s, m, e, st) ==
    IF m = 0 THEN FZero(s)
    ELSE RoundShifted(s, m, e, st, Max(BitLen(m) - 24, MinExp - e))

\* The f32 of an integer, |n| < 2^30.
R(n) == IF n < 0 THEN Round(1, -n, 0, FALSE) ELSE Round(0, n, 0, FALSE)

FNeg(x) == IF is_nan(x) THEN NAN ELSE <<1 - x[1], x[2], x[3]>>
FAbs(x) == IF is_nan(x) THEN NAN ELSE <<0, x[2], x[3]>>

\* x * y of two finite values, from the 48-bit product of the mantissas
\* held as hi * 2^24 + lo.
MulParts(s, e, hi, lo, d) ==
    Round(s, hi * 2^(24 - d) + lo \div 2^d, e + d, lo % 2^d # 0)

MulLimbs(s, e, hh, mid, ll) ==
    MulParts(s, e,
             hh + mid \div 4096 + ((mid % 4096) * 4096 + ll) \div Full,
             ((mid % 4096) * 4096 + ll) % Full,
             Max(0, BitLen(hh + mid \div 4096
                           + ((mid % 4096) * 4096 + ll) \div Full) - 2))

FMul(x, y) ==
    IF is_nan(x) \/ is_nan(y) THEN NAN
    ELSE IF is_infinite(x) \/ is_infinite(y)
    THEN (IF is_zero(x) \/ is_zero(y) THEN NAN ELSE Inf(Xor(x[1], y[1])))
    ELSE IF x[3] = 0 \/ y[3] = 0 THEN FZero(Xor(x[1], y[1]))
    ELSE MulLimbs(Xor(x[1], y[1]), x[2] + y[2],
                  (x[3] \div 4096) * (y[3] \div 4096),
                  (x[3] \div 4096) * (y[3] % 4096)
                      + (x[3] % 4096) * (y[3] \div 4096),
                  (x[3] % 4096) * (y[3] % 4096))

\* |x| >= |y| for finite x and y.
MagGe(x, y) == x[2] > y[2] \/ (x[2] = y[2] /\ x[3] >= y[3])

\* x + y of two finite values with |x| >= |y|: the mantissa of x with three
\* more bits, the mantissa of y shifted to the exponent of x, and whether
\* bits of y were shifted out.
AddAligned(sx, sy, e, X, Y, st) ==
    IF sx = sy THEN Round(sx, X + Y, e, st)
    ELSE IF X = Y /\ ~st THEN FZero(0)
    ELSE Round(sx, X - Y - (IF st THEN 1 ELSE 0), e, st)

AddOrdered(x, y) ==
    IF x[3] = 0 THEN (IF x[1] = y[1] THEN x ELSE FZero(0))
    ELSE IF x[2] - y[2] > 27
    THEN AddAligned(x[1], y[1], x[2] - 3, x[3] * 8, 0, y[3] # 0)
    ELSE AddAligned(x[1], y[1], x[2] - 3, x[3] * 8,
                    (y[3] * 8) \div 2^(x[2] - y[2]),
                    (y[3] * 8) % 2^(x[2] - y[2]) # 0)

FAdd(x, y) ==
    IF is_nan(x) \/ is_nan(y) THEN NAN
    ELSE IF is_infinite(x)
    THEN (IF is_infinite(y) /\ x[1] # y[1] THEN NAN ELSE x)
    ELSE IF is_infinite(y) THEN y
    ELSE IF MagGe(x, y) THEN AddOrdered(x, y) ELSE AddOrdered(y, x)

FSub(x, y) == FAdd(x, FNeg(y))

\* The mantissa of a non-zero finite value shifted up to 24 bits, and the
\* exponent that goes with it.
NormMan(x) == x[3] * 2^(24 - BitLen(x[3]))
NormExp(x) == x[2] - (24 - BitLen(x[3]))

\* floor(a * 2^28 / b) and whether the division left a remainder, for
\* 2^23 <= a, b < 2^24, seven bits at a time.
DivStep(qr, b) == <<qr[1] * 128 + (qr[2] * 128) \div b, (qr[2] * 128) % b>>

DivBits(a, b) == DivStep(DivStep(DivStep(DivStep(<<0, a>>, b), b), b), b)

DivRound(s, e, qr) == Round(s, qr[1], e, qr[2] # 0)

FDiv(x, y) ==
    IF is_nan(x) \/ is_nan(y) THEN NAN
    ELSE IF is_infinite(x)
    THEN (IF is_infinite(y) THEN NAN ELSE Inf(Xor(x[1], y[1])))
    ELSE IF is_infinite(y) THEN FZero(Xor(x[1], y[1]))
    ELSE IF y[3] = 0
    THEN (IF x[3] = 0 THEN NAN ELSE Inf(Xor(x[1], y[1])))
    ELSE IF x[3] = 0 THEN FZero(Xor(x[1], y[1]))
    ELSE DivRound(Xor(x[1], y[1]), NormExp(x) - NormExp(y) - 28,
                  DivBits(NormMan(x), NormMan(y)))

\* Digit-by-digit square root: r and rem after the bit pairs of n above
\* pair i have been taken, then `extra` more pairs of zero bits.
RECURSIVE SqrtBits(_, _, _, _, _)
SqrtBits(n, i, extra, r, rem) ==
    IF i < 0 /\ extra = 0 THEN <<r, rem>>
    ELSE LET rem4 == rem * 4 + (IF i >= 0 THEN (n \div 4^i) % 4 ELSE 0)
             trial == 4 * r + 1
         IN IF rem4 >= trial
            THEN SqrtBits(n, i - 1, IF i >= 0 THEN extra ELSE extra - 1,
                          2 * r + 1, rem4 - trial)
            ELSE SqrtBits(n, i - 1, IF i >= 0 THEN extra ELSE extra - 1,
                          2 * r, rem4)

SqrtRound(e, rr) == Round(0, rr[1], e, rr[2] # 0)

\* sqrt of m * 2^e with e even and 2^23 <= m < 2^25.
SqrtEven(m, e) == SqrtRound(e \div 2 - 14, SqrtBits(m, 12, 14, 0, 0))

FSqrt(x) ==
    IF is_nan(x) THEN NAN
    ELSE IF is_zero(x) THEN x
    ELSE IF x[1] = 1 THEN NAN
    ELSE IF is_infinite(x) THEN x
    ELSE IF NormExp(x) % 2 = 0 THEN SqrtEven(NormMan(x), NormExp(x))
    ELSE SqrtEven(NormMan(x) * 2, NormExp(x) - 1)

\* Comparisons: every comparison with NaN is false, and -0.0 == 0.0.
FEq(x, y) ==
    /\ ~is_nan(x)
    /\ ~is_nan(y)
    /\ (x = y \/ (is_zero(x) /\ is_zero(y)))

\* x < y for two values that are not NaN, by sign and then by magnitude.
FLt(x, y) ==
    /\ ~is_nan(x)
    /\ ~is_nan(y)
    /\ ~(is_zero(x) /\ is_zero(y))
    /\ IF x[1] # y[1] THEN x[1] = 1
       ELSE IF x[1] = 0
       THEN x[2] < y[2] \/ (x[2] = y[2] /\ x[3] < y[3])
       ELSE y[2] < x[2] \/ (x[2] = y[2] /\ y[3] < x[3])

FNe(x, y) == ~FEq(x, y)
FLe(x, y) == FLt(x, y) \/ FEq(x, y)
FGt(x, y) == FLt(y, x)
FGe(x, y) == FLe(y, x)

FClamp(x, lo, hi) ==
    IF FLt(x, lo) THEN lo ELSE IF FGt(x, hi) THEN hi ELSE x

\* The f32 nearest to n/d, which is what the decimal literal of n/d denotes.
Q(n, d) == FDiv(R(n), R(d))

Zero == FZero(0)
One == R(1)

\* 1.0 / x, f32::recip
FRecip(x) == FDiv(One, x)

----------------------------------------------------------------------------
(* Option<T>: None is the empty tuple, Some(x) the one-element tuple. *)

None == <<>>
Some(x) == <<x>>
is_some(o) == o # None
unwrap_or(o, default) == IF o = None THEN default ELSE o[1]

----------------------------------------------------------------------------
(* Springable: f32 (one component), Vec2 (two), Vec3 (three). *)

VZero(n) ==
    IF n = 1 THEN <<Zero>> ELSE IF n = 2 THEN <<Zero, Zero>>
    ELSE <<Zero, Zero, Zero>>

VSub(a, b) ==
    IF Len(a) = 1 THEN <<FSub(a[1], b[1])>>
    ELSE IF Len(a) = 2 THEN <<FSub(a[1], b[1]), FSub(a[2], b[2])>>
    ELSE <<FSub(a[1], b[1]), FSub(a[2], b[2]), FSub(a[3], b[3])>>

VAdd(a, b) ==
    IF Len(a) = 1 THEN <<FAdd(a[1], b[1])>>
    ELSE IF Len(a) = 2 THEN <<FAdd(a[1], b[1]), FAdd(a[2], b[2])>>
    ELSE <<FAdd(a[1], b[1]), FAdd(a[2], b[2]), FAdd(a[3], b[3])>>

VNeg(a) ==
    IF Len(a) = 1 THEN <<FNeg(a[1])>>
    ELSE IF Len(a) = 2 THEN <<FNeg(a[1]), FNeg(a[2])>>
    ELSE <<FNeg(a[1]), FNeg(a[2]), FNeg(a[3])>>

\* Mul<f32>: every component times the scalar.
VScale(a, k) ==
    IF Len(a) = 1 THEN <<FMul(a[1], k)>>
    ELSE IF Len(a) = 2 THEN <<FMul(a[1], k), FMul(a[2], k)>>
    ELSE <<FMul(a[1], k), FMul(a[2], k), FMul(a[3], k)>>

\* glam: the dot product and the Euclidean length.
glam_dot(a, b) ==
    IF Len(a) = 2 THEN FAdd(FMul(a[1], b[1]), FMul(a[2], b[2]))
    ELSE FAdd(FAdd(FMul(a[1], b[1]), FMul(a[2], b[2])), FMul(a[3], b[3]))

glam_length(a) == FSqrt(glam_dot(a, a))

\* glam: self * length_recip() when that reciprocal is finite and positive,
\* and the zero vector otherwise.
glam_normalize_or_zero(a) ==
    LET rcp == FRecip(glam_length(a))
    IN IF is_finite(rcp) /\ FGt(rcp, Zero) THEN VScale(a, rcp) ELSE VZero(Len(a))

springable_length(v) == IF Len(v) = 1 THEN v[1] ELSE glam_length(v)

springable_normalize_or_zero(v) ==
    IF Len(v) = 1 THEN <<One>> ELSE glam_normalize_or_zero(v)

springable_dot(a, b) ==
    IF Len(a) = 1 THEN FMul(a[1], b[1]) ELSE glam_dot(a, b)

\* Kinematic (src/src/kinematic.rs), for f32, Vec2 and Vec3.
Kinematic_length(v) == IF Len(v) = 1 THEN v[1] ELSE glam_length(v)

Kinematic_normalize_or_zero(v) ==
    IF Len(v) = 1 THEN <<One>> ELSE glam_normalize_or_zero(v)

\* <f32 as Kinematic>::inverse
f32_inverse(x) == IF is_normal(x) THEN FRecip(x) ELSE Zero

\* Kinematic::inverse: the f32 one, on every axis for Vec2 and Vec3.
Kinematic_inverse(v) ==
    IF Len(v) = 1 THEN <<f32_inverse(v[1])>>
    ELSE IF Len(v) = 2 THEN <<f32_inverse(v[1]), f32_inverse(v[2])>>
    ELSE <<f32_inverse(v[1]), f32_inverse(v[2]), f32_inverse(v[3])>>

\* Every component of the value is 0.0 or -0.0.
IsZero(v) == \A i \in 1..Len(v) : FEq(v[i], Zero)

\* The two values are equal component by component as f32 compares (0.0 and
\* -0.0 are equal), or both NaN there.
VSame(a, b) ==
    /\ Len(a) = Len(b)
    /\ \A i \in 1..Len(a) : FEq(a[i], b[i]) \/ (is_nan(a[i]) /\ is_nan(b[i]))

\* x is y to within f32 rounding: equal, or apart by at most a millionth of
\* the size of y (some eight units in the last place).
Near(x, y) ==
    FEq(x, y) \/ FLe(FAbs(FSub(x, y)), FMul(FAbs(y), Q(1, 1000000)))

VNear(a, b) == Len(a) = Len(b) /\ \A i \in 1..Len(a) : Near(a[i], b[i])

\* The magnitude of a value as mathematics has it: |x| for a scalar, the
\* Euclidean norm for a vector.  Used to state claims, not by the code.
Magnitude(v) == IF Len(v) = 1 THEN FAbs(v[1]) ELSE glam_length(v)

----------------------------------------------------------------------------
(* SpringBreak *)

SpringBreakDefault ==
    [tear |-> Zero, tear_force |-> One, tear_step |-> Q(1, 100),
     heal_step |-> Q(1, 100)]

\* Faulty variant: tear is not clamped after the step.
SpringBreak_impulse_unclamped(self, impulse) ==
    LET stepped == IF FGe(springable_length(impulse), self.tear_force)
                   THEN FAdd(self.tear, self.tear_step)
                   ELSE FSub(self.tear, self.heal_step)
    IN [self |-> [self EXCEPT !.tear = stepped], ret |-> FGe(stepped, One)]

\* Faulty variant: the spring is reported broken as soon as it is overloaded.
SpringBreak_impulse_instant(self, impulse) ==
    LET stepped == IF FGe(springable_length(impulse), self.tear_force)
                   THEN FAdd(self.tear, self.tear_step)
                   ELSE FSub(self.tear, self.heal_step)
    IN [self |-> [self EXCEPT !.tear = FClamp(stepped, Zero, One)],
        ret |-> FGe(springable_length(impulse), self.tear_force)]

\* SpringBreak::impulse(&mut self, impulse): the object after the call and
\* the value returned.
SpringBreak_impulse(self, impulse) ==
    LET impulse_length == springable_length(impulse)
        stepped == IF FGe(impulse_length, self.tear_force)
                   THEN FAdd(self.tear, self.tear_step)
                   ELSE FSub(self.tear, self.heal_step)
        tear == FClamp(stepped, Zero, One)
    IN [self |-> [self EXCEPT !.tear = tear], ret |-> FGe(tear, One)]

----------------------------------------------------------------------------
(* Spring, Particle *)

\* Faulty variant: the field is returned as stored.
Spring_strength_raw(self) == self.strength

\* Spring::strength(&self)
Spring_strength(self) == FClamp(self.strength, Zero, One)

\* Spring::damp_ratio(&self)
Spring_damp_ratio(self) == FClamp(self.damp_ratio, Zero, R(20))

\* Faulty variant: the reciprocal is taken of a zero mass too.
inverse_mass_unguarded(self) == FRecip(self.mass)

\* Particle::inverse_mass(&self)
inverse_mass(self) ==
    IF FNe(self.mass, Zero) THEN FRecip(self.mass) ELSE Zero

\* Faulty variant: the velocity term is multiplied by damping as derived, unclamped.
Spring_impulse_terms_unclamped(self, inverse_timestep, distance, velocity, unit_vector, distance_length, velocity_vector, distance_error, velocity_error, reduced_mass, damping) ==
    [unit_vector |-> unit_vector,
     distance |-> distance, velocity |-> velocity,
     distance_length |-> distance_length,
     velocity_vector |-> velocity_vector,
     distance_error |-> distance_error, velocity_error |-> velocity_error,
     reduced_mass |-> reduced_mass, damping |-> damping,
     distance_impulse |->
        VScale(VScale(VScale(distance_error, Spring_strength(self)),
                      inverse_timestep), reduced_mass),
     velocity_impulse |-> VScale(VScale(velocity_error, damping), reduced_mass)]

\* Spring::impulse(&self, timestep, particle_a, particle_b, last_impulse_unit),
\* lines 276-286: from the locals computed so far to the last ones.  The
\* result holds every local of the function; the function returns
\* (impulse, unit_vector).
Spring_impulse_terms(self, inverse_timestep, distance, velocity, unit_vector, distance_length, velocity_vector, distance_error, velocity_error, reduced_mass, damping) ==
    [unit_vector |-> unit_vector,
     distance |-> distance, velocity |-> velocity,
     distance_length |-> distance_length,
     velocity_vector |-> velocity_vector,
     distance_error |-> distance_error, velocity_error |-> velocity_error,
     reduced_mass |-> reduced_mass, damping |-> damping,
     distance_impulse |->
        VScale(VScale(VScale(distance_error, Spring_strength(self)),
                      inverse_timestep), reduced_mass),
     velocity_impulse |->
        VScale(VScale(velocity_error, FClamp(damping, Zero, One)), reduced_mass)]

\* Lines 274-280: velocity_vector, the two errors, reduced_mass and damping.
Spring_impulse_errors(self, particle_a, particle_b, inverse_timestep, distance, velocity, unit_vector, distance_length, velocity_vector) ==
    Spring_impulse_terms(self, inverse_timestep, distance, velocity, unit_vector,
        distance_length, velocity_vector,
        VScale(unit_vector, distance_length),
        VScale(velocity_vector, springable_dot(velocity, velocity_vector)),
        FRecip(FAdd(inverse_mass(particle_a), inverse_mass(particle_b))),
        FMul(FMul(Spring_damp_ratio(self), R(2)), FSqrt(Spring_strength(self))))

\* Faulty variant: the scalar distance error is floored at zero.
Spring_impulse_distance_floored(self, particle_a, particle_b, last_impulse_unit, inverse_timestep, distance, velocity, length, unit_vector) ==
    Spring_impulse_errors(self, particle_a, particle_b, inverse_timestep,
        distance, velocity, unit_vector,
        IF FGt(self.limp_distance, length) \/ FLt(length, self.rest_distance)
        THEN Zero
        ELSE FSub(length, self.rest_distance),
        unwrap_or(last_impulse_unit, unit_vector))

\* Lines 267-272: unit_vector and distance_length.
Spring_impulse_distance(self, particle_a, particle_b, last_impulse_unit, inverse_timestep, distance, velocity, length, unit_vector) ==
    Spring_impulse_errors(self, particle_a, particle_b, inverse_timestep,
        distance, velocity, unit_vector,
        IF FGt(self.limp_distance, length) THEN Zero
        ELSE FSub(length, self.rest_distance),
        unwrap_or(last_impulse_unit, unit_vector))

\* Lines 262-265: inverse_timestep, distance and velocity (B minus A).
Spring_impulse_relative(self, particle_a, particle_b, last_impulse_unit, inverse_timestep, distance, velocity) ==
    Spring_impulse_distance(self, particle_a, particle_b, last_impulse_unit,
        inverse_timestep, distance, velocity, springable_length(distance),
        springable_normalize_or_zero(distance))

\* Faulty variant: the relative quantities are taken as A minus B.
Spring_impulse_locals_reversed(self, timestep, particle_a, particle_b, last_impulse_unit) ==
    Spring_impulse_relative(self, particle_a, particle_b, last_impulse_unit,
        FRecip(timestep),
        VSub(particle_a.position, particle_b.position),
        VSub(particle_a.velocity, particle_b.velocity))

Spring_impulse_locals(self, timestep, particle_a, particle_b, last_impulse_unit) ==
    Spring_impulse_relative(self, particle_a, particle_b, last_impulse_unit,
        FRecip(timestep),
        VSub(particle_b.position, particle_a.position),
        VSub(particle_b.velocity, particle_a.velocity))

\* Line 285: impulse = -(distance_impulse + velocity_impulse)
Spring_impulse_sum(l) == VNeg(VAdd(l.distance_impulse, l.velocity_impulse))

Spring_impulse(self, timestep, particle_a, particle_b, last_impulse_unit) ==
    LET l == Spring_impulse_locals(self, timestep, particle_a, particle_b,
                                   last_impulse_unit)
    IN <<Spring_impulse_sum(l), l.unit_vector>>

----------------------------------------------------------------------------
(* SpringState, SpringResult *)

\* SpringState::new(spring)
SpringState_new(spring) ==
    [last_unit_vector |-> None, breaking |-> None, spring |-> spring]

Impulse(v) == [tag |-> "Impulse", value |-> v]
Broke(v) == [tag |-> "Broke", value |-> v]

\* SpringState::impulse, lines 219-231, with the three decisions the faulty
\* variants change: whether the result of SpringBreak::impulse decides the
\* variant, whether the unit vector is stored, and whether Broke carries the
\* impulse.  r is the tuple Spring::impulse returned and b the outcome of
\* SpringBreak::impulse.
SpringState_impulse_result(self, r, b, heed_break, store_unit, carry_impulse) ==
    [self |-> [self EXCEPT
                 !.last_unit_vector =
                     IF store_unit THEN Some(r[2]) ELSE self.last_unit_vector,
                 !.breaking = IF is_some(self.breaking)
                              THEN Some(b.self) ELSE None],
     ret |-> IF b.ret /\ heed_break
             THEN Broke(IF carry_impulse THEN r[1] ELSE VZero(Len(r[1])))
             ELSE Impulse(r[1])]

\* Lines 221-225: the SpringBreak, when there is one, is given the impulse.
SpringState_impulse_break(self, r, heed_break, store_unit, carry_impulse) ==
    SpringState_impulse_result(self, r,
        IF is_some(self.breaking)
        THEN SpringBreak_impulse(self.breaking[1], r[1])
        ELSE [self |-> None, ret |-> FALSE],
        heed_break, store_unit, carry_impulse)

\* Lines 216-218: Spring::impulse is called with the stored unit vector.
SpringState_impulse_with(self, timestep, particle_a, particle_b, heed_break, store_unit, carry_impulse) ==
    SpringState_impulse_break(self,
        Spring_impulse(self.spring, timestep, particle_a, particle_b,
                       self.last_unit_vector),
        heed_break, store_unit, carry_impulse)

\* Faulty variant: the variant ignores what SpringBreak::impulse returned.
SpringState_impulse_never_broke(self, timestep, particle_a, particle_b) ==
    SpringState_impulse_with(self, timestep, particle_a, particle_b,
                             FALSE, TRUE, TRUE)

\* Faulty variant: the unit vector of this evaluation is not stored.
SpringState_impulse_unit_dropped(self, timestep, particle_a, particle_b) ==
    SpringState_impulse_with(self, timestep, particle_a, particle_b,
                             TRUE, FALSE, TRUE)

\* Faulty variant: a broken spring carries the zero impulse.
SpringState_impulse_broke_zero(self, timestep, particle_a, particle_b) ==
    SpringState_impulse_with(self, timestep, particle_a, particle_b,
                             TRUE, TRUE, FALSE)

\* Faulty variant: the velocity term is taken along the unit vector of this
\* evaluation, the stored one being ignored.
SpringState_impulse_current_axis(self, timestep, particle_a, particle_b) ==
    SpringState_impulse_with([self EXCEPT !.last_unit_vector = None],
                             timestep, particle_a, particle_b,
                             TRUE, TRUE, TRUE)

\* A result as a spring whose tear had reached 1.0 before the call would give
\* it if it stayed broken.
Latched(self, r) ==
    IF is_some(self.breaking) /\ FGe(self.breaking[1].tear, One)
    THEN [self |-> [r.self EXCEPT !.breaking = self.breaking],
          ret |-> Broke(r.ret.value)]
    ELSE r

\* Faulty variant: once tear has reached 1.0 the spring stays broken.
SpringState_impulse_latched(self, timestep, particle_a, particle_b) ==
    Latched(self, SpringState_impulse_with(self, timestep, particle_a,
                                           particle_b, TRUE, TRUE, TRUE))

\* SpringState::impulse(&mut self, timestep, particle_a, particle_b): the
\* object after the call and the SpringResult returned.
SpringState_impulse(self, timestep, particle_a, particle_b) ==
    SpringState_impulse_with(self, timestep, particle_a, particle_b,
                             TRUE, TRUE, TRUE)

----------------------------------------------------------------------------
(* State *)

VARIABLES
    brk,        \* a SpringBreak driven directly through SpringBreak::impulse
    brkCall,    \* its last call: Some([impulse, before, ret]), None before any
    spring,     \* a Spring read through its accessors and Spring::impulse
    springCall, \* the call made on it: [op, done, ...], with the arguments
                \* from the start and the outcome once done
    dim,        \* the type S of the SpringState: 1 f32, 2 Vec2, 3 Vec3
    state,      \* a SpringState<S>
    call,       \* its last SpringState::impulse call: Some([before, after,
                \* timestep, particle_a, particle_b]), None before any; in
                \* the caller the last Spring::impulse call, with
                \* the world it was made in and the tuple it returned
    result,     \* the SpringResult of that call, None before any
    run,        \* the results of the evaluations made so far, oldest first
                \* (kept by the break-firing specification); in the caller
                \* the displacement of B from A after every tick
    valueCall,  \* a call of a Springable, Kinematic or Particle method on a
                \* value: [op, done, self], and ret once done
    world,      \* the two bodies a spring joins, as its caller keeps them:
                \* [a, b], each [mass, position, velocity, impulse]
    start,      \* the world as it was set up
    clock,      \* the schedule of the caller: [timestep, next, ticks] with
                \* next the step to take and ticks the number of ticks
                \* completed
    entities,   \* the entities of examples/energy.rs, an entity's id being
                \* its place: [translation, velocity, impulse, mass,
                \* previous_unit_vector, spring, settings, gravity]
    time,       \* its frame: [delta, pending, frames] with delta the
                \* seconds Time reports, pending the systems still to run
                \* in the frame and frames the number of frames started
    sprung,     \* the last run of its system spring_impulse: Some([delta,
                \* before, after]) with the entities it found and left
    item,       \* a RapierParticleQueryItem: [feature, rigid_body, mass]
    itemCall    \* the call made on it: [op, done], and ret once done

vars ==
    <<brk, brkCall, spring, springCall, dim, state, call, result, run,
      valueCall, world, start, clock, entities, time, sprung, item, itemCall>>

breakVars == <<brk, brkCall>>
springVars == <<spring, springCall>>
stateVars == <<dim, state, call, result, run>>
valueVars == <<valueCall>>
callerVars == <<world, start, clock>>
appVars == <<entities, time, sprung>>
driveVars == <<callerVars, appVars>>
adapterVars == <<item, itemCall>>
allButApp ==
    <<breakVars, springVars, stateVars, valueVars, callerVars, adapterVars>>

SpringDefault ==
    [strength |-> Zero, damp_ratio |-> Zero, rest_distance |-> Zero,
     limp_distance |-> Zero]

BreakIdle == brk = SpringBreakDefault /\ brkCall = None
SpringIdle == spring = SpringDefault /\ springCall = None
StateIdle ==
    /\ dim = 1
    /\ state = SpringState_new(SpringDefault)
    /\ call = None
    /\ result = None
    /\ run = <<>>
ValueIdle == valueCall = None
CallerIdle == world = None /\ start = None /\ clock = None
AppIdle == entities = <<>> /\ time = None /\ sprung = None
DriveIdle == CallerIdle /\ AppIdle
AdapterIdle == item = None /\ itemCall = None
OthersIdle == ValueIdle /\ DriveIdle /\ AdapterIdle

----------------------------------------------------------------------------
(* SpringBreak::impulse called directly, on any SpringBreak, with impulses *)
(* of the three Springable types.                                          *)

\* Field values are the halves from -1/2 (or -MaxHalf/2) to MaxHalf/2.
MaxHalf == 3

Halves(lo, hi) == {Q(n, 2) : n \in lo..hi}

BreakObjects ==
    [tear : Halves(-1, MaxHalf), tear_force : {Zero, One},
     tear_step : Halves(-1, MaxHalf), heal_step : Halves(-1, MaxHalf)]

BreakImpulses ==
    {<<x>> : x \in Halves(-MaxHalf, MaxHalf)}
    \cup {<<Zero, Zero>>, <<Q(3, 5), Q(4, 5)>>, <<R(-3), R(4)>>, <<Q(1, 2), Zero>>}
    \cup {<<Zero, Zero, Zero>>, <<R(1), R(-2), R(2)>>, <<Zero, R(-1), Zero>>,
          <<Zero, Zero, Q(1, 2)>>}

InitBreak ==
    /\ brk \in BreakObjects
    /\ brkCall = None
    /\ SpringIdle
    /\ StateIdle
    /\ OthersIdle

BreakImpulse(impulse) ==
    \E r \in {SpringBreak_impulse(brk, impulse)} :
       /\ brk' = r.self
       /\ brkCall' = Some([impulse |-> impulse, before |-> brk, ret |-> r.ret])
       /\ UNCHANGED <<springVars, stateVars, valueVars, driveVars, adapterVars>>

NextBreak == \E impulse \in BreakImpulses : BreakImpulse(impulse)

SpecBreak == InitBreak /\ [][NextBreak]_vars

\* The fields of a SpringBreak lie in their documented ranges.
InRange(b) ==
    /\ FLe(Zero, b.tear) /\ FLe(b.tear, One)
    /\ FLe(Zero, b.tear_force)
    /\ FLe(Zero, b.tear_step) /\ FLe(b.tear_step, One)
    /\ FLe(Zero, b.heal_step) /\ FLe(b.heal_step, One)

\* C1: after every call of SpringBreak::impulse, whatever the fields of the
\* SpringBreak were and whatever impulse was passed, tear lies in [0,1].
C1_TearInUnitInterval ==
    brkCall # None => FLe(Zero, brk.tear) /\ FLe(brk.tear, One)

\* C1 witness: a call on a SpringBreak whose tear was above 1 and whose step
\* would have taken it further out.
C1_Witness ==
    /\ brkCall # None
    /\ FGt(brkCall[1].before.tear, One)
    /\ FGe(springable_length(brkCall[1].impulse), brkCall[1].before.tear_force)
    /\ FGt(brkCall[1].before.tear_step, Zero)

\* C2: in a call of SpringBreak::impulse on a SpringBreak whose fields are in
\* their documented ranges, tear strictly increases only if the magnitude of
\* the impulse is >= tear_force and strictly decreases only if it is
\* < tear_force.
C2_TearMovesWithMagnitude ==
    (brkCall # None /\ InRange(brkCall[1].before)) =>
        LET c == brkCall[1]
        IN /\ FGt(brk.tear, c.before.tear) =>
                FGe(Magnitude(c.impulse), c.before.tear_force)
           /\ FLt(brk.tear, c.before.tear) =>
                FLt(Magnitude(c.impulse), c.before.tear_force)

\* C4 as claimed: one call with magnitude >= tear_force on a SpringBreak with
\* tear = 0 and tear_step, heal_step in [0,1] returns false.
C4_SingleOverloadNeverBreaks ==
    brkCall # None =>
        LET c == brkCall[1]
        IN (/\ FEq(c.before.tear, Zero)
            /\ FLe(Zero, c.before.tear_step) /\ FLe(c.before.tear_step, One)
            /\ FLe(Zero, c.before.heal_step) /\ FLe(c.before.heal_step, One)
            /\ FGe(Magnitude(c.impulse), c.before.tear_force))
           => c.ret = FALSE

\* C4 amended: one call with magnitude >= tear_force on a SpringBreak with
\* tear = 0, tear_step in [0,1) and heal_step in [0,1] returns false.
C4_SingleOverloadBelowFullStep ==
    brkCall # None =>
        LET c == brkCall[1]
        IN (/\ FEq(c.before.tear, Zero)
            /\ FLe(Zero, c.before.tear_step) /\ FLt(c.before.tear_step, One)
            /\ FLe(Zero, c.before.heal_step) /\ FLe(c.before.heal_step, One)
            /\ FGe(Magnitude(c.impulse), c.before.tear_force))
           => c.ret = FALSE

\* C4 witness: an overload that did tear a fresh SpringBreak, by less than 1.
C4_Witness ==
    /\ brkCall # None
    /\ FEq(brkCall[1].before.tear, Zero)
    /\ FLt(brkCall[1].before.tear_step, One)
    /\ FLe(brkCall[1].before.heal_step, One)
    /\ FLe(Zero, brkCall[1].before.heal_step)
    /\ FGe(Magnitude(brkCall[1].impulse), brkCall[1].before.tear_force)
    /\ FGt(brk.tear, Zero)
    /\ brkCall[1].ret = FALSE

----------------------------------------------------------------------------
(* SpringState<S>: construction, assignment of the public field `breaking` *)
(* and SpringState::impulse, for S = f32, Vec2 and Vec3.                   *)

\* The value of type S (given by d) with first component x, second y.
Embed(d, x, y) ==
    IF d = 1 THEN <<x>> ELSE IF d = 2 THEN <<x, y>> ELSE <<x, y, Zero>>

Timesteps == {One}

StateSprings ==
    {[strength |-> One, damp_ratio |-> One, rest_distance |-> Zero,
      limp_distance |-> Zero],
     [strength |-> Q(1, 4), damp_ratio |-> Zero, rest_distance |-> Zero,
      limp_distance |-> Zero]}

\* Endpoint A: static at the origin, or of mass 1 at (15, 0); at rest.
\* The positions of A and B differ by vectors of rational length.
ParticlesA(d) ==
    {[mass |-> Zero, position |-> Embed(d, Zero, Zero),
      velocity |-> Embed(d, Zero, Zero)],
     [mass |-> One, position |-> Embed(d, R(15), Zero),
      velocity |-> Embed(d, Zero, Zero)]}

\* Endpoint B: static or of mass 1.
ParticlesB(d) ==
    [mass : {Zero, One},
     position : {Embed(d, Zero, Zero), Embed(d, R(15), Zero),
                 Embed(d, R(15), R(20))},
     velocity : {Embed(d, v, Zero) : v \in {R(-15), Zero}}]

\* The SpringBreak values a caller assigns to `breaking`.
StateBreaks ==
    [tear : {Zero}, tear_force : {R(10)}, tear_step : {Q(1, 2)},
     heal_step : {Q(1, 2)}]

Init ==
    /\ dim \in 1..3
    /\ \E sp \in StateSprings : state = SpringState_new(sp)
    /\ call = None
    /\ result = None
    /\ run = <<>>
    /\ BreakIdle
    /\ SpringIdle
    /\ OthersIdle

\* state.breaking = b
AssignBreaking(b) ==
    /\ state' = [state EXCEPT !.breaking = b]
    /\ run' = <<>>
    /\ UNCHANGED <<dim, call, result, breakVars, springVars, valueVars, driveVars, adapterVars>>

\* state.impulse(timestep, particle_a, particle_b)
StateImpulse(timestep, particle_a, particle_b) ==
    \E r \in {SpringState_impulse(state, timestep, particle_a, particle_b)} :
       /\ state' = r.self
       /\ call' = Some([before |-> state, after |-> r.self,
                        timestep |-> timestep,
                        particle_a |-> particle_a, particle_b |-> particle_b])
       /\ result' = Some(r.ret)
       /\ UNCHANGED <<dim, breakVars, springVars, valueVars, driveVars, adapterVars>>

Evaluate ==
    \E timestep \in Timesteps, particle_a \in ParticlesA(dim),
       particle_b \in ParticlesB(dim) :
        /\ StateImpulse(timestep, particle_a, particle_b)
        /\ UNCHANGED run

Next ==
    \/ \E b \in {None} \cup {Some(x) : x \in StateBreaks} : AssignBreaking(b)
    \/ Evaluate

Spec == Init /\ [][Next]_vars

\* C5: SpringState::impulse returns Broke exactly when breaking is present
\* and its tear is >= 1.0 after this call's SpringBreak update, and Impulse
\* in every other case, so always when breaking is None.
C5_BrokeIffTornThrough ==
    call # None =>
        LET after == call[1].after
            torn == is_some(after.breaking) /\ FGe(after.breaking[1].tear, One)
        IN /\ result[1].tag \in {"Impulse", "Broke"}
           /\ (result[1].tag = "Broke") <=> torn
           /\ (call[1].before.breaking = None) => result[1].tag = "Impulse"

\* C5 witness: an evaluation that returned Broke.
C5_Witness ==
    /\ call # None
    /\ result[1].tag = "Broke"
    /\ call[1].after.breaking[1].tear = One

\* C6: the value carried by the result, Impulse or Broke, is the impulse
\* Spring::impulse computes from this call's inputs and the last unit vector
\* held before the call, and is the value the same SpringState with
\* breaking = None returns for the same inputs.
C6_ResultCarriesImpulse ==
    call # None =>
        LET c == call[1]
            unbreakable == [c.before EXCEPT !.breaking = None]
        IN /\ result[1].value =
                Spring_impulse(c.before.spring, c.timestep, c.particle_a,
                               c.particle_b, c.before.last_unit_vector)[1]
           /\ result[1].value =
                SpringState_impulse(unbreakable, c.timestep, c.particle_a,
                                    c.particle_b).ret.value

\* C6 witness: a Broke result that carries a non-zero impulse.
C6_Witness ==
    /\ call # None
    /\ result[1].tag = "Broke"
    /\ ~IsZero(result[1].value)
    /\ \A i \in 1..dim : is_finite(result[1].value[i])

\* C7: SpringState::new gives last_unit_vector = None and breaking = None;
\* afterwards last_unit_vector is None exactly while SpringState::impulse has
\* never been called, and after a call it is the normalize_or_zero of
\* position_b - position_a of the most recent call.
C7_LastUnitVector ==
    /\ \A sp \in StateSprings :
        /\ SpringState_new(sp).last_unit_vector = None
        /\ SpringState_new(sp).breaking = None
        /\ SpringState_new(sp).spring = sp
    /\ (state.last_unit_vector = None) <=> (call = None)
    /\ call # None =>
        state.last_unit_vector =
            Some(springable_normalize_or_zero(
                    VSub(call[1].particle_b.position, call[1].particle_a.position)))

\* x lies strictly between the f32 nearest to lo/100 and to hi/100.
Between(x, lo, hi) == FLt(Q(lo, 100), x) /\ FLt(x, Q(hi, 100))

\* C7 witness: after a call whose displacement was (15, 20) the stored unit
\* vector is (0.6, 0.8) to within rounding, and the call before it had
\* stored another one.
C7_Witness ==
    /\ call # None
    /\ dim = 2
    /\ call[1].particle_b.position = <<R(15), R(20)>>
    /\ call[1].particle_a.position = <<Zero, Zero>>
    /\ Between(state.last_unit_vector[1][1], 59, 61)
    /\ Between(state.last_unit_vector[1][2], 79, 81)
    /\ call[1].before.last_unit_vector = Some(<<R(-1), Zero>>)

----------------------------------------------------------------------------
(* Break firing: a SpringState whose breaking is                           *)
(* SpringBreak{tear = 0, tear_step = 0.5, heal_step = 0.01,                *)
(* tear_force = 10}, evaluated MaxRun times.                               *)

MaxRun == 3

FiringBreak ==
    [tear |-> Zero, tear_step |-> Q(1, 2), heal_step |-> Q(1, 100),
     tear_force |-> R(10)]

InitFiring ==
    /\ dim \in 1..3
    /\ \E sp \in StateSprings :
        state = [SpringState_new(sp) EXCEPT !.breaking = Some(FiringBreak)]
    /\ call = None
    /\ result = None
    /\ run = <<>>
    /\ BreakIdle
    /\ SpringIdle
    /\ OthersIdle

EvaluateFiring ==
    /\ Len(run) < MaxRun
    /\ \E timestep \in Timesteps, particle_a \in ParticlesA(dim),
          particle_b \in ParticlesB(dim) :
        /\ StateImpulse(timestep, particle_a, particle_b)
        /\ run' = Append(run, result'[1])

NextFiring == EvaluateFiring

SpecFiring == InitFiring /\ [][NextFiring]_vars

\* C3: after three consecutive evaluations whose impulses all have
\* magnitude 15, tear is >= 1.0 and the third evaluation returned Broke.
C3_ThreeOverloadsBreak ==
    (/\ Len(run) >= 3
     /\ \A i \in 1..3 : FEq(Magnitude(run[i].value), R(15)))
    => (Len(run) = 3 => FGe(state.breaking[1].tear, One))
       /\ run[3].tag = "Broke"

\* C3 for the impulses whose springable_length is 15 (every Vec2 and Vec3 of
\* magnitude 15, and the f32 +15): this much holds.
C3_ThreeOverloadsByLength ==
    (/\ Len(run) >= 3
     /\ \A i \in 1..3 : FEq(springable_length(run[i].value), R(15)))
    => (Len(run) = 3 => FGe(state.breaking[1].tear, One))
       /\ run[3].tag = "Broke"

----------------------------------------------------------------------------
(* Spring: the accessors and Spring::impulse called on Spring values whose *)
(* fields are in and out of their documented ranges.                       *)

Springs ==
    [strength : {Q(-1, 2), Q(1, 20), Q(1, 4), One, R(2)},
     damp_ratio : {R(-1), Q(1, 2), R(20), R(25)},
     rest_distance : {Zero, R(20)},
     limp_distance : {Zero, R(5)}]

\* Endpoint A of a direct call: normal, or static by mass 0 or infinity.
CallParticlesA(d) ==
    [mass : {Zero, One, INFINITY},
     position : {Embed(d, Zero, Zero)},
     velocity : {Embed(d, Zero, Zero), Embed(d, R(-15), Zero)}]

\* Endpoint B: of mass 2 or 7 or static, at the position of A, at (15, 20)
\* from it (15 for an f32) or at (-15, 0).
CallParticlesB(d) ==
    [mass : {Zero, R(2), R(7), INFINITY},
     position : {Embed(d, Zero, Zero), Embed(d, R(15), R(20)),
                 Embed(d, R(-15), Zero)},
     velocity : {Embed(d, Zero, Zero), Embed(d, R(-15), Zero)}]

CallTimesteps == {Q(1, 2)}

CallLastUnits(d) == {None, Some(Embed(d, One, Zero))}

\* The calls to make: the method and its arguments.
SpringCalls ==
    {[op |-> "strength", done |-> FALSE], [op |-> "damp_ratio", done |-> FALSE]}
    \cup UNION {[op : {"impulse"}, done : {FALSE}, timestep : CallTimesteps,
                 particle_a : CallParticlesA(d), particle_b : CallParticlesB(d),
                 last_impulse_unit : CallLastUnits(d)] : d \in 1..3}

InitSpring ==
    /\ spring \in Springs
    /\ springCall \in SpringCalls
    /\ BreakIdle
    /\ StateIdle
    /\ OthersIdle

\* spring.strength()
ReadStrength ==
    /\ springCall.op = "strength" /\ ~springCall.done
    /\ springCall' = [op |-> "strength", done |-> TRUE, before |-> spring,
                      ret |-> Spring_strength(spring)]
    /\ UNCHANGED <<spring, breakVars, stateVars, valueVars, driveVars, adapterVars>>

\* spring.damp_ratio()
ReadDampRatio ==
    /\ springCall.op = "damp_ratio" /\ ~springCall.done
    /\ springCall' = [op |-> "damp_ratio", done |-> TRUE, before |-> spring,
                      ret |-> Spring_damp_ratio(spring)]
    /\ UNCHANGED <<spring, breakVars, stateVars, valueVars, driveVars, adapterVars>>

\* spring.impulse::<S>(timestep, particle_a, particle_b, last_impulse_unit)
CallImpulse ==
    /\ springCall.op = "impulse" /\ ~springCall.done
    /\ \E l \in {Spring_impulse_locals(spring, springCall.timestep,
                    springCall.particle_a, springCall.particle_b,
                    springCall.last_impulse_unit)} :
        springCall' = [op |-> "impulse", done |-> TRUE, before |-> spring,
                       timestep |-> springCall.timestep,
                       particle_a |-> springCall.particle_a,
                       particle_b |-> springCall.particle_b,
                       last_impulse_unit |-> springCall.last_impulse_unit,
                       locals |-> l,
                       ret |-> <<Spring_impulse_sum(l), l.unit_vector>>]
    /\ UNCHANGED <<spring, breakVars, stateVars, valueVars, driveVars, adapterVars>>

NextSpring ==
    \/ ReadStrength
    \/ ReadDampRatio
    \/ CallImpulse

SpecSpring == InitSpring /\ [][NextSpring]_vars

\* The call of the given method has returned.
Returned(op) == springCall # None /\ springCall.done /\ springCall.op = op

\* x limited to [lo, hi], written out.
Limited(x, lo, hi) == IF FLt(x, lo) THEN lo ELSE IF FGt(x, hi) THEN hi ELSE x

\* C8: strength() returns the strength field limited to [0,1], damp_ratio()
\* the damp_ratio field limited to [0,20], whatever the fields hold, and
\* neither changes the fields.
C8_AccessorsClamp ==
    /\ Returned("strength") =>
        /\ springCall.ret = Limited(springCall.before.strength, Zero, One)
        /\ FLe(Zero, springCall.ret) /\ FLe(springCall.ret, One)
        /\ spring = springCall.before
    /\ Returned("damp_ratio") =>
        /\ springCall.ret = Limited(springCall.before.damp_ratio, Zero, R(20))
        /\ FLe(Zero, springCall.ret) /\ FLe(springCall.ret, R(20))
        /\ spring = springCall.before

\* C8 witness: strength() read from a Spring whose strength field is 2.
C8_Witness ==
    /\ Returned("strength")
    /\ springCall.before.strength = R(2)
    /\ springCall.ret = One

\* C9: the coefficient multiplied into the velocity term of the impulse is
\* clamp(damp_ratio() * 2 * sqrt(strength()), 0, 1), which lies in [0,1].
C9_DampingCoefficient ==
    Returned("impulse") =>
        LET c == springCall
            coefficient ==
                Limited(FMul(FMul(Spring_damp_ratio(c.before), R(2)),
                             FSqrt(Spring_strength(c.before))), Zero, One)
        IN /\ FLe(Zero, coefficient) /\ FLe(coefficient, One)
           /\ c.locals.velocity_impulse =
                VScale(VScale(c.locals.velocity_error, coefficient),
                       c.locals.reduced_mass)

\* C9 witness: an evaluation with damp_ratio 20 and strength 1, whose derived
\* damping is 40, and a finite non-zero velocity term.
C9_Witness ==
    /\ Returned("impulse")
    /\ springCall.before.damp_ratio = R(20)
    /\ springCall.before.strength = One
    /\ springCall.locals.damping = R(40)
    /\ springCall.locals.velocity_impulse[1] = R(15)

\* C10: when the two endpoints have equal positions and equal velocities,
\* the impulse returned is exactly zero, for f32, Vec2 and Vec3.
C10_RestStability ==
    (/\ Returned("impulse")
     /\ springCall.particle_a.position = springCall.particle_b.position
     /\ springCall.particle_a.velocity = springCall.particle_b.velocity)
    => \A i \in 1..Len(springCall.ret[1]) : FEq(springCall.ret[1][i], Zero)

\* A mass the claims call static (infinite inertia): 0.0 or infinity.
StaticMass(m) == FEq(m, Zero) \/ m = INFINITY

\* C11: when both endpoints are static (mass 0.0 or infinity), the reduced
\* mass is zero and the impulse returned is the zero value, whatever the
\* displacement and the relative velocity.
C11_DoubleInfiniteNoOp ==
    (/\ Returned("impulse")
     /\ StaticMass(springCall.particle_a.mass)
     /\ StaticMass(springCall.particle_b.mass))
    => /\ FEq(springCall.locals.reduced_mass, Zero)
       /\ IsZero(springCall.ret[1])

\* C11, the impulse alone: with both endpoints static the impulse returned
\* is the zero value.
C11_DoubleInfiniteZeroImpulse ==
    (/\ Returned("impulse")
     /\ StaticMass(springCall.particle_a.mass)
     /\ StaticMass(springCall.particle_b.mass))
    => IsZero(springCall.ret[1])

\* With both endpoints static the impulse the code returns has a NaN or
\* infinite component in every case.
BothStaticNeverFinite ==
    (/\ Returned("impulse")
     /\ StaticMass(springCall.particle_a.mass)
     /\ StaticMass(springCall.particle_b.mass))
    => \E i \in 1..Len(springCall.ret[1]) : ~is_finite(springCall.ret[1][i])

\* The impulse of the call made, computed with the two endpoints exchanged
\* and the same last unit vector.
SwappedImpulse ==
    Spring_impulse(springCall.before, springCall.timestep, springCall.particle_b,
                   springCall.particle_a, springCall.last_impulse_unit)[1]

\* C12: for two endpoints of finite inertia (normal mass) and the same last
\* unit vector, the impulse computed for (A,B) is the negation of the
\* impulse computed for (B,A).
C12_Symmetry ==
    (/\ Returned("impulse")
     /\ is_normal(springCall.particle_a.mass)
     /\ is_normal(springCall.particle_b.mass))
    => VSame(springCall.ret[1], VNeg(SwappedImpulse))

\* C12 for Vec2 and Vec3 only: this much holds.
C12_SymmetryOfVectors ==
    (/\ Returned("impulse")
     /\ Len(springCall.ret[1]) > 1
     /\ is_normal(springCall.particle_a.mass)
     /\ is_normal(springCall.particle_b.mass))
    => VSame(springCall.ret[1], VNeg(SwappedImpulse))

----------------------------------------------------------------------------
(* The caller of the core, as section 6 of the specification requires it   *)
(* to be: once per step it evaluates the spring between body A and body B, *)
(* adds the impulse with opposite signs to the accumulated impulses of the *)
(* two, then integrates each body by symplectic Euler (the velocity by the *)
(* inverse mass times the accumulated impulse, then the position by the    *)
(* new velocity times the timestep) and zeroes its accumulated impulse.    *)
(* The bodies are of any of the three Springable types and the timestep is *)
(* chosen at the start; clock.timestep is both the timestep of the spring  *)
(* and the step of the integration.                                        *)

MaxTicks == 3

CallerSprings ==
    [strength : {One, Q(1, 4)}, damp_ratio : {Zero, Q(1, 2), One},
     rest_distance : {Zero, R(5)}, limp_distance : {Zero}]

CallerTimesteps == {One, Q(1, 2)}

\* Body A at rest at the origin, body B at 10 or -10 on the first axis, at
\* rest or moving along it.
CallerWorlds(d) ==
    [a : [mass : {Zero, One, INFINITY}, position : {Embed(d, Zero, Zero)},
          velocity : {Embed(d, Zero, Zero)}, impulse : {VZero(d)}],
     b : [mass : {Zero, One, INFINITY},
          position : {Embed(d, R(10), Zero), Embed(d, R(-10), Zero)},
          velocity : {Embed(d, Zero, Zero), Embed(d, R(-5), Zero)},
          impulse : {VZero(d)}]]

InitCaller ==
    /\ dim \in 1..3
    /\ \E sp \in CallerSprings : state = SpringState_new(sp)
    /\ world \in CallerWorlds(dim)
    /\ start = world
    /\ \E timestep \in CallerTimesteps :
        clock = [timestep |-> timestep, next |-> "evaluate", ticks |-> 0]
    /\ call = None
    /\ result = None
    /\ run = <<>>
    /\ BreakIdle
    /\ SpringIdle
    /\ ValueIdle
    /\ AppIdle
    /\ AdapterIdle

\* The endpoint record of a body: Particle { mass, position, velocity }.
ParticleOf(body) ==
    [mass |-> body.mass, position |-> body.position, velocity |-> body.velocity]

\* The caller evaluates the spring: state.spring is the spring and
\* state.last_unit_vector the unit vector the caller keeps for it.
CallerEvaluate ==
    /\ clock.next = "evaluate"
    /\ clock.ticks < MaxTicks
    /\ \E r \in {Spring_impulse(state.spring, clock.timestep, ParticleOf(world.a),
                                ParticleOf(world.b), state.last_unit_vector)} :
        /\ world' = [world EXCEPT !.a.impulse = VSub(@, r[1]),
                                  !.b.impulse = VAdd(@, r[1])]
        /\ state' = [state EXCEPT !.last_unit_vector = Some(r[2])]
        /\ call' = Some([before |-> state, timestep |-> clock.timestep,
                         particle_a |-> ParticleOf(world.a),
                         particle_b |-> ParticleOf(world.b),
                         world |-> world, ret |-> r])
    /\ clock' = [clock EXCEPT !.next = "integrate"]
    /\ UNCHANGED <<dim, result, run, start, breakVars, springVars, valueVars,
                   appVars, adapterVars>>

\* One body integrated, its velocity being updated already.
Integrated(body, velocity, timestep) ==
    [body EXCEPT !.velocity = velocity,
                 !.position = VAdd(@, VScale(velocity, timestep)),
                 !.impulse = VZero(Len(@))]

\* Faulty variant: explicit Euler, the position moved by the velocity the
\* body had before the impulse was applied.
Integrate_position_first(body, timestep) ==
    [body EXCEPT !.position = VAdd(@, VScale(body.velocity, timestep)),
                 !.velocity = VAdd(@, VScale(body.impulse,
                                             inverse_mass(ParticleOf(body)))),
                 !.impulse = VZero(Len(@))]

\* One body integrated by symplectic Euler.
Integrate(body, timestep) ==
    Integrated(body,
               VAdd(body.velocity,
                    VScale(body.impulse, inverse_mass(ParticleOf(body)))),
               timestep)

\* The caller integrates the two bodies; run records the displacement of B
\* from A it leaves.
CallerIntegrate ==
    /\ clock.next = "integrate"
    /\ \E w \in {[a |-> Integrate(world.a, clock.timestep),
                   b |-> Integrate(world.b, clock.timestep)]} :
        /\ world' = w
        /\ run' = Append(run, VSub(w.b.position, w.a.position))
    /\ clock' = [clock EXCEPT !.next = "evaluate", !.ticks = @ + 1]
    /\ UNCHANGED <<dim, state, call, result, start, breakVars, springVars,
                   valueVars, appVars, adapterVars>>

NextCaller ==
    \/ CallerEvaluate
    \/ CallerIntegrate

SpecCaller == InitCaller /\ [][NextCaller]_vars

\* The displacement of B from A on the first axis.
Displacement(w) == FSub(w.b.position[1], w.a.position[1])

\* C13: if body B is static (mass 0.0 or infinity), then over any number of
\* ticks in which every body's velocity changes by its inverse mass times
\* its accumulated impulse, the velocity of B never changes.
C13_AnchorInvariance ==
    StaticMass(start.b.mass) => VSame(world.b.velocity, start.b.velocity)

\* C13 with body A of normal mass: this much holds, and A is the only body
\* whose velocity changes.
C13_AnchorOfMovingBody ==
    (StaticMass(start.b.mass) /\ is_normal(start.a.mass))
    => VSame(world.b.velocity, start.b.velocity)

\* The endpoint with a static mass given the other way: 0.0 for infinity,
\* infinity for 0.0.
OtherStatic(p) ==
    IF StaticMass(p.mass)
    THEN [p EXCEPT !.mass = IF FEq(p.mass, Zero) THEN INFINITY ELSE Zero]
    ELSE p

\* C14: an endpoint of mass 0.0 or infinity has inverse mass zero; when the
\* other endpoint has a normal mass m, the reduced mass of the evaluation is
\* m (to within the rounding of 1/(1/m)) and the impulse is the one computed
\* with the static mass given the other way (0.0 for infinity, infinity for
\* 0.0).
C14_StaticEndpoint ==
    Returned("impulse") =>
        LET a == springCall.particle_a
            b == springCall.particle_b
        IN /\ StaticMass(a.mass) => inverse_mass(a) = Zero
           /\ StaticMass(b.mass) => inverse_mass(b) = Zero
           /\ (StaticMass(a.mass) /\ is_normal(b.mass)) =>
                Near(springCall.locals.reduced_mass, b.mass)
           /\ (is_normal(a.mass) /\ StaticMass(b.mass)) =>
                Near(springCall.locals.reduced_mass, a.mass)
           /\ (StaticMass(a.mass) # StaticMass(b.mass)) =>
                springCall.ret =
                    Spring_impulse(springCall.before, springCall.timestep,
                                   OtherStatic(a), OtherStatic(b),
                                   springCall.last_impulse_unit)

\* C14 witness: an evaluation between a static endpoint of mass infinity and
\* an endpoint of mass 7, with the reduced mass 1/(1/7), which is the f32
\* next below 7, and a non-zero finite impulse.
C14_Witness ==
    /\ Returned("impulse")
    /\ springCall.particle_a.mass = INFINITY
    /\ springCall.particle_b.mass = R(7)
    /\ FLt(springCall.locals.reduced_mass, R(7))
    /\ FGt(springCall.locals.reduced_mass, Q(6999999, 1000000))
    /\ ~IsZero(springCall.ret[1])
    /\ \A i \in 1..Len(springCall.ret[1]) : is_finite(springCall.ret[1][i])

----------------------------------------------------------------------------
(* The methods of Kinematic and Springable, and Particle::inverse_mass,    *)
(* called on values of the three types.                                    *)

\* Normal, zero, infinite and NaN scalars.
InverseScalars == {Zero, R(2), Q(-1, 2), INFINITY, NAN}

InverseValues ==
    {<<x>> : x \in InverseScalars \cup {One, NEG_INFINITY}}
    \cup (InverseScalars \X InverseScalars)
    \cup (InverseScalars \X InverseScalars \X InverseScalars)

MassValues ==
    {Zero, FNeg(Zero), One, R(2), Q(1, 2), R(-4), R(7), INFINITY, NEG_INFINITY,
     NAN}

\* Finite values: vectors whose length is an f32 and vectors whose length
\* is rounded.
NormalizeValues ==
    {<<Zero>>, <<One>>, <<R(15)>>, <<Q(1, 2)>>, <<R(-3)>>, <<Q(-1, 4)>>}
    \cup {<<Zero, Zero>>, <<R(3), R(4)>>, <<R(-3), R(4)>>, <<Zero, R(-2)>>,
          <<Q(1, 2), Zero>>, <<R(-15), R(-20)>>, <<One, One>>,
          <<Q(-1, 2), Q(1, 4)>>, <<Q(1, 128), Q(1, 256)>>, <<Q(1, 20), R(7)>>}
    \cup {<<Zero, Zero, Zero>>, <<R(1), R(-2), R(2)>>, <<Zero, R(-1), Zero>>,
          <<R(2), R(3), R(6)>>, <<Zero, Zero, Q(1, 2)>>, <<R(-4), Zero, R(3)>>,
          <<One, R(2), R(3)>>, <<Q(1, 10), Q(-1, 3), R(50)>>}

ValueCalls ==
    [op : {"Kinematic::inverse"}, done : {FALSE}, self : InverseValues]
    \cup [op : {"Particle::inverse_mass"}, done : {FALSE},
          self : [mass : MassValues]]
    \cup [op : {"Kinematic::normalize_or_zero",
                "Springable::springable_normalize_or_zero"},
          done : {FALSE}, self : NormalizeValues]

InitValue ==
    /\ valueCall \in ValueCalls
    /\ BreakIdle
    /\ SpringIdle
    /\ StateIdle
    /\ DriveIdle
    /\ AdapterIdle

\* The call of valueCall returns ret.
ValueReturns(op, ret) ==
    /\ valueCall.op = op /\ ~valueCall.done
    /\ valueCall' = [op |-> op, done |-> TRUE, self |-> valueCall.self,
                     ret |-> ret]
    /\ UNCHANGED <<breakVars, springVars, stateVars, driveVars, adapterVars>>

\* self.inverse()
CallInverse ==
    ValueReturns("Kinematic::inverse", Kinematic_inverse(valueCall.self))

\* particle.inverse_mass()
CallInverseMass ==
    ValueReturns("Particle::inverse_mass", inverse_mass(valueCall.self))

\* Kinematic::normalize_or_zero(self)
CallNormalizeOrZero ==
    ValueReturns("Kinematic::normalize_or_zero",
                 Kinematic_normalize_or_zero(valueCall.self))

\* Springable::springable_normalize_or_zero(self)
CallSpringableNormalizeOrZero ==
    ValueReturns("Springable::springable_normalize_or_zero",
                 springable_normalize_or_zero(valueCall.self))

NextValue ==
    \/ CallInverse
    \/ CallInverseMass
    \/ CallNormalizeOrZero
    \/ CallSpringableNormalizeOrZero

SpecValue == InitValue /\ [][NextValue]_vars

ValueReturned(op) == valueCall # None /\ valueCall.done /\ valueCall.op = op

\* y is what the claim takes the inverse of x to be: the reciprocal of a
\* normal x, exactly 0 for a zero, infinite or NaN x.
IsInverse(x, y) ==
    /\ is_normal(x) => y = FDiv(One, x) /\ Near(FMul(x, y), One)
    /\ (is_zero(x) \/ ~is_finite(x)) => FEq(y, Zero)

\* C15: Kinematic::inverse and Particle::inverse_mass return the reciprocal
\* of a normal value and exactly 0 for a zero, infinite or NaN value,
\* Kinematic::inverse on each axis of a Vec2 or Vec3 independently.
C15_InverseOrZero ==
    /\ ValueReturned("Kinematic::inverse") =>
        /\ Len(valueCall.ret) = Len(valueCall.self)
        /\ \A i \in 1..Len(valueCall.self) :
                IsInverse(valueCall.self[i], valueCall.ret[i])
    /\ ValueReturned("Particle::inverse_mass") =>
        IsInverse(valueCall.self.mass, valueCall.ret)

\* C15 for Kinematic::inverse alone: this much holds.
C15_KinematicInverse ==
    ValueReturned("Kinematic::inverse") =>
        /\ Len(valueCall.ret) = Len(valueCall.self)
        /\ \A i \in 1..Len(valueCall.self) :
                IsInverse(valueCall.self[i], valueCall.ret[i])

\* C15 for Particle::inverse_mass of a mass that is not NaN: this much holds.
C15_InverseMassOfNumbers ==
    (ValueReturned("Particle::inverse_mass") /\ ~is_nan(valueCall.self.mass))
    => IsInverse(valueCall.self.mass, valueCall.ret)

\* u is the zero value if v has length zero, and otherwise has length 1 and
\* the direction of v (v is u scaled by the length of v).
IsUnitOf(v, u) ==
    IF FEq(Magnitude(v), Zero) THEN IsZero(u)
    ELSE Near(Magnitude(u), One) /\ VNear(VScale(u, Magnitude(v)), v)

\* C16: for f32, Vec2 and Vec3 alike, normalize_or_zero of a finite value
\* is the zero value when the value has length zero and otherwise a value
\* of length 1 in the same direction (of the same sign for an f32).
C16_NormalizeOrZero ==
    (ValueReturned("Kinematic::normalize_or_zero")
     \/ ValueReturned("Springable::springable_normalize_or_zero"))
    => IsUnitOf(valueCall.self, valueCall.ret)

\* C16 for Vec2 and Vec3, and for positive f32: this much holds.
C16_NormalizeOrZeroOfVectors ==
    ((ValueReturned("Kinematic::normalize_or_zero")
      \/ ValueReturned("Springable::springable_normalize_or_zero"))
     /\ (Len(valueCall.self) > 1 \/ FGt(valueCall.self[1], Zero)))
    => IsUnitOf(valueCall.self, valueCall.ret)

----------------------------------------------------------------------------
(* Spring::impulse for f32 against Spring::impulse for Vec2 (checked under *)
(* SpecSpring).                                                            *)

\* The f32 particle as a Vec2 particle on the first axis, and the same for
\* the last unit vector.
OnFirstAxis(p) ==
    [mass |-> p.mass, position |-> <<p.position[1], Zero>>,
     velocity |-> <<p.velocity[1], Zero>>]

UnitOnFirstAxis(o) == IF o = None THEN None ELSE Some(<<o[1][1], Zero>>)

\* The Vec2 impulse for the arguments of the f32 call made.
ImpulseOnFirstAxis ==
    Spring_impulse(springCall.before, springCall.timestep,
                   OnFirstAxis(springCall.particle_a),
                   OnFirstAxis(springCall.particle_b),
                   UnitOnFirstAxis(springCall.last_impulse_unit))[1]

\* C17: the impulse of the f32 spring computed from positions and
\* velocities x equals the first component of the impulse of the Vec2
\* spring computed from the same values as (x, 0), for every spring, pair
\* of masses, timestep and last unit vector, negative and zero displacement
\* and non-zero rest and limp distance included.
C17_ScalarAgreesWithVector ==
    (Returned("impulse") /\ Len(springCall.ret[1]) = 1)
    => VSame(<<springCall.ret[1][1]>>, <<ImpulseOnFirstAxis[1]>>)

\* C17 for positive displacement: this much holds.
C17_AgreeOnPositiveDisplacement ==
    (/\ Returned("impulse")
     /\ Len(springCall.ret[1]) = 1
     /\ FGt(springCall.locals.distance[1], Zero))
    => VSame(<<springCall.ret[1][1]>>, <<ImpulseOnFirstAxis[1]>>)

----------------------------------------------------------------------------
(* The rapier adapter (src/src/rapier.rs): RapierParticleQueryItem::mass,   *)
(* velocity and translation.  item.feature is 2 for the rapier2d build and *)
(* 3 for the rapier3d build; principal_inertia and angvel are an f32 (one  *)
(* component) in 2D and a Vec3 in 3D.                                      *)

\* MassProperties::default(): bevy_rapier derives Default for
\* MassProperties, so every field is zero.
MassPropertiesDefault(feature) ==
    [local_center_of_mass |-> VZero(feature), mass |-> Zero,
     principal_inertia |-> IF feature = 2 THEN <<Zero>> ELSE VZero(3)]

\* Faulty variant: the mass properties are returned as read, whatever the
\* body is.
RapierParticleQueryItem_mass_as_read(self) ==
    [prop |-> IF is_some(self.mass) THEN self.mass[1]
              ELSE MassPropertiesDefault(self.feature),
     warned |-> self.mass = None
                /\ self.rigid_body \in {Some("KinematicVelocityBased"),
                                        Some("Dynamic")}]

\* RapierParticleQueryItem::mass(&self): the MassProperties returned, and
\* whether the call logged its warning.
RapierParticleQueryItem_mass(self) ==
    LET prop == IF is_some(self.mass) THEN self.mass[1]
                ELSE MassPropertiesDefault(self.feature)
    IN [prop |-> IF self.rigid_body \in {Some("KinematicVelocityBased"),
                                         Some("KinematicPositionBased"),
                                         Some("Fixed")}
                 THEN [prop EXCEPT
                         !.mass = Zero,
                         !.principal_inertia =
                            IF self.feature = 2 THEN <<Zero>> ELSE VZero(3)]
                 ELSE prop,
        warned |-> self.mass = None
                   /\ self.rigid_body \in {Some("KinematicVelocityBased"),
                                           Some("Dynamic")}]

\* Velocity::default(): zero linear and angular velocity.
VelocityDefault(feature) ==
    [linvel |-> VZero(feature),
     angvel |-> IF feature = 2 THEN <<Zero>> ELSE VZero(3)]

\* RapierParticleQueryItem::velocity(&self): the Velocity returned, and
\* whether the call logged its warning.
RapierParticleQueryItem_velocity(self) ==
    [velocity |-> IF is_some(self.velocity) THEN self.velocity[1]
                  ELSE VelocityDefault(self.feature),
     warned |-> self.velocity = None
                /\ self.rigid_body \in {Some("Dynamic"),
                                        Some("KinematicVelocityBased")}]

\* Vec3::cross
glam_cross(a, b) ==
    <<FSub(FMul(a[2], b[3]), FMul(b[2], a[3])),
      FSub(FMul(a[3], b[1]), FMul(b[3], a[1])),
      FSub(FMul(a[1], b[2]), FMul(b[1], a[2]))>>

\* RapierParticleQueryItem::translation(&self) of the rapier2d build.
RapierParticleQueryItem_translation2(self, velocity, mass) ==
    [translation |-> <<self.global_transform[1], self.global_transform[2]>>,
     velocity |-> velocity.linvel,
     mass |-> mass.mass]

\* RapierParticleQueryItem::translation(&self) of the rapier3d build.
RapierParticleQueryItem_translation3(self, velocity, mass) ==
    [translation |-> self.global_transform,
     velocity |-> VAdd(velocity.linvel,
                       glam_cross(velocity.angvel,
                                  VSub(VZero(3), mass.local_center_of_mass))),
     mass |-> mass.mass]

\* RapierParticleQueryItem::translation(&self) of the build in use.
RapierParticleQueryItem_translation(self) ==
    IF self.feature = 2
    THEN RapierParticleQueryItem_translation2(self,
             RapierParticleQueryItem_velocity(self).velocity,
             RapierParticleQueryItem_mass(self).prop)
    ELSE RapierParticleQueryItem_translation3(self,
             RapierParticleQueryItem_velocity(self).velocity,
             RapierParticleQueryItem_mass(self).prop)

RigidBodies ==
    {"Dynamic", "Fixed", "KinematicPositionBased", "KinematicVelocityBased"}

\* The ReadMassProperties components a body may carry.
ReadMassProperties(feature) ==
    [local_center_of_mass : {VZero(feature), Embed(feature, One, Zero)},
     mass : {Zero, One, R(2), INFINITY},
     principal_inertia :
        IF feature = 2 THEN {<<Zero>>, <<R(3)>>, <<INFINITY>>}
        ELSE {VZero(3), <<R(3), Zero, Q(1, 2)>>, <<INFINITY, R(2), R(2)>>}]

\* The Velocity components a body may carry: at rest or moving along the
\* first axis, not turning or turning about the third or the first axis.
Velocities(feature) ==
    [linvel : {VZero(feature), Embed(feature, R(2), Zero)},
     angvel : IF feature = 2 THEN {<<Zero>>, <<One>>}
              ELSE {VZero(3), <<Zero, Zero, One>>, <<One, Zero, Zero>>}]

\* The operations called on an item.
ItemCalls ==
    {[op |-> "mass", done |-> FALSE], [op |-> "translation", done |-> FALSE]}

Items ==
    UNION {[feature : {f},
            global_transform : {<<One, R(2), R(3)>>},
            rigid_body : {None} \cup {Some(b) : b \in RigidBodies},
            velocity : {None} \cup {Some(v) : v \in Velocities(f)},
            mass : {None} \cup {Some(p) : p \in ReadMassProperties(f)}]
           : f \in {2, 3}}

InitRapier ==
    /\ item \in Items
    /\ itemCall \in ItemCalls
    /\ BreakIdle
    /\ SpringIdle
    /\ StateIdle
    /\ ValueIdle
    /\ DriveIdle

\* item.mass()
CallMass ==
    /\ itemCall.op = "mass" /\ ~itemCall.done
    /\ itemCall' = [op |-> "mass", done |-> TRUE, self |-> item,
                    ret |-> RapierParticleQueryItem_mass(item)]
    /\ UNCHANGED <<item, breakVars, springVars, stateVars, valueVars, driveVars>>

\* item.translation()
CallTranslation ==
    /\ itemCall.op = "translation" /\ ~itemCall.done
    /\ itemCall' = [op |-> "translation", done |-> TRUE, self |-> item,
                    ret |-> RapierParticleQueryItem_translation(item),
                    warned_velocity |->
                        RapierParticleQueryItem_velocity(item).warned,
                    warned_mass |-> RapierParticleQueryItem_mass(item).warned]
    /\ UNCHANGED <<item, breakVars, springVars, stateVars, valueVars, driveVars>>

NextRapier ==
    \/ CallMass
    \/ CallTranslation

SpecRapier == InitRapier /\ [][NextRapier]_vars

ItemReturned(op) == itemCall # None /\ itemCall.done /\ itemCall.op = op

\* The body is one the spring must not move.
Unmovable(rigid_body) ==
    rigid_body \in {Some("Fixed"), Some("KinematicPositionBased"),
                    Some("KinematicVelocityBased")}

\* C18: for a body that is Fixed, KinematicPositionBased or
\* KinematicVelocityBased, mass() returns a mass and a principal inertia
\* whose inverse() is zero, with or without a mass component on the body
\* and whatever it holds.
C18_UnmovableBodiesAreStatic ==
    (ItemReturned("mass") /\ Unmovable(itemCall.self.rigid_body))
    => /\ Kinematic_inverse(<<itemCall.ret.prop.mass>>) = <<Zero>>
       /\ IsZero(Kinematic_inverse(itemCall.ret.prop.principal_inertia))

\* C18 witness: a Fixed body whose mass component holds mass 2 and a
\* non-zero inertia, for which mass() has returned mass 0.
C18_Witness ==
    /\ ItemReturned("mass")
    /\ itemCall.self.rigid_body = Some("Fixed")
    /\ is_some(itemCall.self.mass)
    /\ itemCall.self.mass[1].mass = R(2)
    /\ ~IsZero(itemCall.self.mass[1].principal_inertia)
    /\ itemCall.ret.prop.mass = Zero

\* C19: for a Dynamic body without a mass component, mass() returns (it
\* fails on no input) and the mass it returns is 1.0.
C19_DynamicDefaultsToUnitMass ==
    (/\ ItemReturned("mass")
     /\ itemCall.self.rigid_body = Some("Dynamic")
     /\ itemCall.self.mass = None)
    => itemCall.ret.prop.mass = One

\* What mass() does return for a Dynamic body without a mass component:
\* the warning and mass 0.0.
DynamicDefaultsToZeroMass ==
    (/\ ItemReturned("mass")
     /\ itemCall.self.rigid_body = Some("Dynamic")
     /\ itemCall.self.mass = None)
    => itemCall.ret.warned /\ itemCall.ret.prop.mass = Zero

\* The critically damped scenario: an f32 spring of strength 1 and
\* damp_ratio 1 with no rest or limp distance, timestep 1, one body static
\* and the other of mass 1, set up at displacement 10 with no relative
\* velocity.
CriticallyDamped ==
    /\ dim = 1
    /\ state.spring = [strength |-> One, damp_ratio |-> One,
                       rest_distance |-> Zero, limp_distance |-> Zero]
    /\ clock.timestep = One
    /\ FEq(Displacement(start), R(10))
    /\ VSame(start.a.velocity, start.b.velocity)
    /\ \/ StaticMass(start.a.mass) /\ start.b.mass = One
       \/ start.a.mass = One /\ StaticMass(start.b.mass)

\* C20: in the critically damped scenario the first evaluation, which is
\* the one SpringState::impulse makes on a new SpringState, returns an
\* impulse of magnitude 10, and with the impulse applied and integrated by
\* symplectic Euler on every tick the displacement never changes sign.
C20_NoOvershoot ==
    CriticallyDamped =>
        /\ (call # None /\ call[1].before.last_unit_vector = None) =>
            /\ FEq(Magnitude(call[1].ret[1]), R(10))
            /\ SpringState_impulse(SpringState_new(state.spring),
                                   call[1].timestep, call[1].particle_a,
                                   call[1].particle_b).ret
                 = Impulse(call[1].ret[1])
        /\ FGe(Displacement(world), Zero)

\* C20 witness: the scenario after three ticks, the displacement brought to
\* zero and both bodies at rest.
C20_Witness ==
    /\ CriticallyDamped
    /\ clock.ticks = 3
    /\ FEq(Displacement(world), Zero)
    /\ FEq(Displacement(start), R(10))
    /\ IsZero(world.a.velocity)
    /\ IsZero(world.b.velocity)

----------------------------------------------------------------------------
(* Damping and equilibrium under the caller (SpecCaller). *)

\* One body is static and the other has a normal mass.
Anchored == StaticMass(start.a.mass) # StaticMass(start.b.mass)
            /\ (is_normal(start.a.mass) \/ is_normal(start.b.mass))

\* The displacement after some tick had the sign opposite to the one it
\* was set up with.
Overshot ==
    \E i \in 1..Len(run) : FLt(FMul(run[i][1], Displacement(start)), Zero)

\* Nothing moves any more: both bodies are at rest, nothing is accumulated
\* and the spring's next impulse is zero.
Settled ==
    /\ clock.next = "evaluate"
    /\ clock.ticks > 0
    /\ IsZero(world.a.velocity) /\ IsZero(world.b.velocity)
    /\ IsZero(world.a.impulse) /\ IsZero(world.b.impulse)
    /\ IsZero(Spring_impulse(state.spring, clock.timestep, ParticleOf(world.a),
                             ParticleOf(world.b), state.last_unit_vector)[1])

\* A mass released at rest from a non-zero displacement against a static
\* anchor, on a spring of strength in (0,1] and damp_ratio in [0,1) with no
\* rest distance.
UnderDampedRelease ==
    /\ Anchored
    /\ IsZero(start.a.velocity) /\ IsZero(start.b.velocity)
    /\ FNe(Displacement(start), Zero)
    /\ FGt(state.spring.strength, Zero) /\ FLe(state.spring.strength, One)
    /\ FGe(state.spring.damp_ratio, Zero) /\ FLt(state.spring.damp_ratio, One)
    /\ FEq(state.spring.rest_distance, Zero)

\* C21: a mass released at rest from a non-zero displacement against a
\* static anchor, with strength in (0,1] and damp_ratio in [0,1), overshoots:
\* its displacement changes sign at some tick, so it has done so by the time
\* the bodies have settled and nothing moves any more.
C21_UnderDampedOvershoots ==
    (UnderDampedRelease /\ Settled) => Overshot

\* C21 for Vec2 and Vec3 alone: the same statement, which fails as well.
C21_UnderDampedVectorsOvershoot ==
    (UnderDampedRelease /\ Settled /\ dim > 1) => Overshot

\* A spring of strength 1 between two bodies not both static, set up with
\* no relative velocity.
FullStrengthAtRest ==
    /\ FEq(state.spring.strength, One)
    /\ ~(StaticMass(start.a.mass) /\ StaticMass(start.b.mass))
    /\ VSame(start.a.velocity, start.b.velocity)

\* C22: with strength = 1, two bodies not both static and no relative
\* velocity, after one evaluation of the spring, applied with opposite signs
\* to the two bodies, and one step of symplectic Euler of the same
\* timestep, the distance between the bodies is rest_distance.
C22_EquilibriumInOneStep ==
    (FullStrengthAtRest /\ Len(run) >= 1)
    => FEq(Magnitude(run[1]), state.spring.rest_distance)

\* C22 for a displacement of positive springable_length (every non-zero
\* Vec2 and Vec3, and a positive f32): this much holds.
C22_EquilibriumFromPositiveLength ==
    (/\ FullStrengthAtRest
     /\ Len(run) >= 1
     /\ FGt(springable_length(VSub(start.b.position, start.a.position)), Zero))
    => FEq(Magnitude(run[1]), state.spring.rest_distance)

----------------------------------------------------------------------------
(* examples/energy.rs as shipped: setup spawns, per damp ratio, a cube and *)
(* a slot holding the spring to it; every frame the systems spring_impulse *)
(* and gravity run, in either order, before symplectic_euler. An entity is *)
(* a record of its components; spring, settings and gravity are None on an *)
(* entity without the component. The camera and the "Starting" sprites     *)
(* carry no component the three systems query and are left out.            *)

\* Frames run.
MaxFrames == 4

\* const TICK_RATE: f64 = 1.0 / 60.0, read as f32 where it is used
TICK_RATE == Q(1, 60)

\* Mass::inverse_mass(&self)
Mass_inverse_mass(self) == IF FNe(self, Zero) THEN FRecip(self) ELSE Zero

\* Vec2::extend(0.0)
extend(v) == <<v[1], v[2], Zero>>

\* Vec3::xy()
xy(v) == <<v[1], v[2]>>

\* The cube of setup at the given index.
setup_cube(index) ==
    [translation |-> VAdd(<<Zero, Zero, Zero>>,
                          VScale(<<R(50), Zero, Zero>>, R(index))),
     velocity |-> <<Zero, Zero>>, impulse |-> <<Zero, Zero>>, mass |-> One,
     previous_unit_vector |-> None, spring |-> None, settings |-> None,
     gravity |-> None]

\* The slot of setup at the given index, holding the spring to the cube.
setup_slot(index, ratio, cube_1) ==
    [translation |-> VAdd(<<R(50), R(50), Zero>>,
                          VScale(<<R(50), Zero, Zero>>, R(index))),
     velocity |-> <<Zero, Zero>>, impulse |-> <<Zero, Zero>>,
     mass |-> INFINITY, previous_unit_vector |-> None,
     spring |-> Some(cube_1),
     settings |-> Some([strength |-> Q(1, 20), damp_ratio |-> ratio,
                        rest_distance |-> Zero, limp_distance |-> Zero]),
     gravity |-> None]

\* The while loop of setup: spawned holds the entities spawned so far, an
\* entity's id being its place in it.
RECURSIVE setup_loop(_, _, _)
setup_loop(current, index, spawned) ==
    IF FLt(current, Q(4, 10000))
    THEN setup_loop(FAdd(current, Q(1, 100000)), index + 1,
                    spawned \o <<setup_cube(index),
                                  setup_slot(index, current, Len(spawned) + 1)>>)
    ELSE spawned

\* setup
setup == setup_loop(Q(2, 10000), 0, <<>>)

\* The guard the three systems start with.
delta_skipped(delta) == FEq(delta, Zero) \/ FGe(delta, One)

\* The springy::Particle spring_impulse builds of an entity.
spring_impulse_particle(e) ==
    [mass |-> e.mass, position |-> xy(e.translation), velocity |-> e.velocity]

\* Faulty variant: the impulse is added to both accumulators.
spring_impulse_added_to_both(es, spring_entity, particle_entity, r) ==
    [es EXCEPT ![spring_entity].impulse = VAdd(@, r[1]),
                     ![particle_entity].impulse = VAdd(@, r[1]),
                     ![spring_entity].previous_unit_vector = Some(r[2])]

\* The end of the loop body of spring_impulse, r being what Spring::impulse
\* returned.
spring_impulse_apply(es, spring_entity, particle_entity, r) ==
    [es EXCEPT ![spring_entity].impulse = VSub(@, r[1]),
                     ![particle_entity].impulse = VAdd(@, r[1]),
                     ![spring_entity].previous_unit_vector = Some(r[2])]

\* The loop body of spring_impulse for the entity of the query `springs`
\* with the given id.
spring_impulse_body(es, spring_entity, particle_entity) ==
    IF particle_entity = spring_entity THEN es
    ELSE spring_impulse_apply(
             es, spring_entity, particle_entity,
             Spring_impulse(es[spring_entity].settings[1], TICK_RATE,
                            spring_impulse_particle(es[spring_entity]),
                            spring_impulse_particle(es[particle_entity]),
                            es[spring_entity].previous_unit_vector))

\* The loop of spring_impulse from the entity with the given id on.
RECURSIVE spring_impulse_loop(_, _)
spring_impulse_loop(es, id) ==
    IF id > Len(es) THEN es
    ELSE IF es[id].spring = None \/ es[id].settings = None
    THEN spring_impulse_loop(es, id + 1)
    ELSE spring_impulse_loop(
             spring_impulse_body(es, id, es[id].spring[1]), id + 1)

\* spring_impulse
spring_impulse(delta, es) ==
    IF delta_skipped(delta) THEN es ELSE spring_impulse_loop(es, 1)

\* The loop body of gravity.
gravity_body(e) ==
    IF e.gravity = None THEN e ELSE [e EXCEPT !.impulse = VAdd(@, e.gravity[1])]

\* gravity
gravity(delta, es) ==
    IF delta_skipped(delta) THEN es
    ELSE [id \in 1..Len(es) |-> gravity_body(es[id])]

\* The loop body of symplectic_euler once the velocity is updated.
symplectic_euler_moved(e, velocity) ==
    [e EXCEPT !.velocity = velocity,
              !.translation = VAdd(@, VScale(extend(velocity), TICK_RATE)),
              !.impulse = <<Zero, Zero>>]

\* The loop body of symplectic_euler.
symplectic_euler_body(e) ==
    symplectic_euler_moved(
        e, VAdd(e.velocity, VScale(e.impulse, Mass_inverse_mass(e.mass))))

\* symplectic_euler
symplectic_euler(delta, es) ==
    IF delta_skipped(delta) THEN es
    ELSE [id \in 1..Len(es) |-> symplectic_euler_body(es[id])]

\* The frame deltas tried: a frame without time, a frame of one tick and a
\* frame as long as the systems skip.
Deltas == {Zero, TICK_RATE, One}

InitDrive ==
    /\ entities = setup
    /\ time = [delta |-> Zero, pending |-> {}, frames |-> 0]
    /\ sprung = None
    /\ StateIdle
    /\ BreakIdle
    /\ SpringIdle
    /\ ValueIdle
    /\ CallerIdle
    /\ AdapterIdle

\* A frame starts: Time has its delta and the three systems are to run.
Frame(delta) ==
    /\ time.pending = {}
    /\ time.frames < MaxFrames
    /\ time' = [delta |-> delta,
                pending |-> {"spring_impulse", "gravity", "symplectic_euler"},
                frames |-> time.frames + 1]
    /\ UNCHANGED <<entities, sprung, allButApp>>

\* spring_impulse runs; sprung keeps the entities as it found and left them.
SpringImpulseSystem ==
    /\ "spring_impulse" \in time.pending
    /\ \E after \in {spring_impulse(time.delta, entities)} :
        /\ entities' = after
        /\ sprung' = Some([delta |-> time.delta, before |-> entities,
                           after |-> after])
    /\ time' = [time EXCEPT !.pending = @ \ {"spring_impulse"}]
    /\ UNCHANGED allButApp

GravitySystem ==
    /\ "gravity" \in time.pending
    /\ entities' = gravity(time.delta, entities)
    /\ time' = [time EXCEPT !.pending = @ \ {"gravity"}]
    /\ UNCHANGED <<sprung, allButApp>>

\* symplectic_euler runs, after the two systems registered before it.
SymplecticEuler ==
    /\ time.pending = {"symplectic_euler"}
    /\ entities' = symplectic_euler(time.delta, entities)
    /\ time' = [time EXCEPT !.pending = {}]
    /\ UNCHANGED <<sprung, allButApp>>

NextDrive ==
    \/ \E delta \in Deltas : Frame(delta)
    \/ SpringImpulseSystem
    \/ GravitySystem
    \/ SymplecticEuler

SpecDrive == InitDrive /\ [][NextDrive]_vars

\* The entities for which spring_impulse evaluates a spring: those holding
\* one to another entity.
Sprung(es) ==
    {id \in 1..Len(es) :
        es[id].spring # None /\ es[id].settings # None /\ es[id].spring[1] # id}

\* What the last run of spring_impulse added to the accumulated impulse of
\* the entity with the given id.
Added(id) == VSub(sprung[1].after[id].impulse, sprung[1].before[id].impulse)

\* The two Vec2 are equal, component by component, as f32 compare.
Vec2Eq(a, b) == FEq(a[1], b[1]) /\ FEq(a[2], b[2])

\* C23: in a run of spring_impulse, for every spring evaluated, what is
\* added to the accumulated impulse of the entity holding the spring is
\* exactly the negation of what is added to that of the entity it contains,
\* which is the impulse Spring::impulse returned, so the sum of the two
\* accumulators is what it was before the run; and once symplectic_euler
\* has run the accumulated impulse of every entity is zero.
C23_OppositeImpulses ==
    /\ (sprung # None /\ ~delta_skipped(sprung[1].delta)) =>
        \A id \in Sprung(sprung[1].before) :
            LET before == sprung[1].before
                after == sprung[1].after
                other == before[id].spring[1]
            IN /\ Vec2Eq(Added(id), VNeg(Added(other)))
               /\ Vec2Eq(Added(other),
                         Spring_impulse(before[id].settings[1], TICK_RATE,
                                        spring_impulse_particle(before[id]),
                                        spring_impulse_particle(before[other]),
                                        before[id].previous_unit_vector)[1])
               /\ Vec2Eq(VAdd(after[id].impulse, after[other].impulse),
                         VAdd(before[id].impulse, before[other].impulse))
    /\ time.pending = {} =>
        \A id \in 1..Len(entities) : IsZero(entities[id].impulse)

\* C23 witness: a frame of one tick has run to its end; spring_impulse added
\* a non-zero impulse to a slot and to its cube, and symplectic_euler has
\* turned the cube's into velocity and zeroed it.
C23_Witness ==
    /\ sprung # None
    /\ ~delta_skipped(sprung[1].delta)
    /\ time.pending = {}
    /\ ~delta_skipped(time.delta)
    /\ \E id \in Sprung(sprung[1].before) :
        /\ ~IsZero(Added(id))
        /\ is_finite(Added(id)[1]) /\ is_finite(Added(id)[2])
        /\ ~IsZero(entities[sprung[1].before[id].spring[1]].velocity)
        /\ IsZero(entities[sprung[1].before[id].spring[1]].impulse)

----------------------------------------------------------------------------
(* The tear transition of SpringBreak::impulse (SpecBreak). *)

\* The SpringBreak b with its tear stepped by step and limited to [0,1].
TearStepped(b, step) == [b EXCEPT !.tear = Limited(FAdd(b.tear, step), Zero, One)]

\* C24: one call of SpringBreak::impulse changes tear to
\* clamp(tear + tear_step, 0, 1) when the magnitude of the impulse is
\* >= tear_force and to clamp(tear - heal_step, 0, 1) otherwise, and leaves
\* tear_force, tear_step and heal_step as they were.
C24_TearTransition ==
    brkCall # None =>
        LET b == brkCall[1].before
        IN brk = IF FGe(Magnitude(brkCall[1].impulse), b.tear_force)
                 THEN TearStepped(b, b.tear_step)
                 ELSE TearStepped(b, FNeg(b.heal_step))

\* C24 with the springable_length of the impulse in place of its magnitude:
\* this much holds.
C24_TearTransitionByLength ==
    brkCall # None =>
        LET b == brkCall[1].before
        IN brk = IF FGe(springable_length(brkCall[1].impulse), b.tear_force)
                 THEN TearStepped(b, b.tear_step)
                 ELSE TearStepped(b, FNeg(b.heal_step))

\* C29: for an impulse x of any of the three types and any SpringBreak,
\* SpringBreak::impulse(x) and SpringBreak::impulse(-x) leave the same tear
\* and return the same flag.
C29_MagnitudeOnly ==
    brkCall # None =>
        LET r == SpringBreak_impulse(brkCall[1].before, VNeg(brkCall[1].impulse))
        IN r.self.tear = brk.tear /\ r.ret = brkCall[1].ret

\* C29 for Vec2 and Vec3: this much holds.
C29_MagnitudeOnlyForVectors ==
    (brkCall # None /\ Len(brkCall[1].impulse) > 1) =>
        LET r == SpringBreak_impulse(brkCall[1].before, VNeg(brkCall[1].impulse))
        IN r.self.tear = brk.tear /\ r.ret = brkCall[1].ret

----------------------------------------------------------------------------
(* The composition of the impulse of one evaluation (SpecSpring). *)

\* The two values agree to within f32 rounding, or are both NaN there.
VAgree(a, b) ==
    /\ Len(a) = Len(b)
    /\ \A i \in 1..Len(a) : Near(a[i], b[i]) \/ (is_nan(a[i]) /\ is_nan(b[i]))

\* distance_term as the claim composes it: distance_error * reduced_inertia
\* * strength() / timestep, the distance error being the unit vector of the
\* displacement of B from A times the scalar distance error.
ComposedDistanceTerm(self, timestep, particle_a, particle_b, distance_length, reduced_inertia) ==
    VScale(VScale(VScale(
        VScale(springable_normalize_or_zero(
                   VSub(particle_b.position, particle_a.position)),
               distance_length),
        reduced_inertia), Spring_strength(self)), FRecip(timestep))

\* velocity_term as the claim composes it: velocity_along * reduced_inertia
\* * damping(), velocity_along being direction * (relative_velocity .
\* direction) with the velocity of B relative to A.
ComposedVelocityTerm(self, particle_a, particle_b, reduced_inertia, direction) ==
    VScale(VScale(
        VScale(direction,
               springable_dot(VSub(particle_b.velocity, particle_a.velocity),
                              direction)),
        reduced_inertia),
        Limited(FMul(FMul(Spring_damp_ratio(self), R(2)),
                     FSqrt(Spring_strength(self))), Zero, One))

\* -(distance_term + velocity_term) as the claim composes it, from the
\* scalar distance error, the reduced inertia, the direction of damping and
\* the quantities of B relative to A.
ComposedImpulse(self, timestep, particle_a, particle_b, distance_length, reduced_inertia, direction) ==
    VNeg(VAdd(
        ComposedDistanceTerm(self, timestep, particle_a, particle_b,
                             distance_length, reduced_inertia),
        ComposedVelocityTerm(self, particle_a, particle_b, reduced_inertia,
                             direction)))

\* C25: the impulse returned is -(distance_term + velocity_term), with
\* distance_term = distance_error * reduced_inertia * strength() / timestep,
\* velocity_term = velocity_along * reduced_inertia * damping() and
\* velocity_along = direction * (relative_velocity . direction), the
\* displacement and the relative velocity being those of B minus A and
\* direction the last unit vector, or the unit vector of the displacement
\* when there is none.  The code multiplies the factors of each term in
\* another order, so the terms are compared to within f32 rounding.
C25_ImpulseComposition ==
    Returned("impulse") =>
        /\ springCall.ret[1] =
                VNeg(VAdd(springCall.locals.distance_impulse,
                          springCall.locals.velocity_impulse))
        /\ VAgree(springCall.locals.distance_impulse,
                  ComposedDistanceTerm(springCall.before, springCall.timestep,
                      springCall.particle_a, springCall.particle_b,
                      springCall.locals.distance_length,
                      springCall.locals.reduced_mass))
        /\ VAgree(springCall.locals.velocity_impulse,
                  ComposedVelocityTerm(springCall.before,
                      springCall.particle_a, springCall.particle_b,
                      springCall.locals.reduced_mass,
                      unwrap_or(springCall.last_impulse_unit,
                                springable_normalize_or_zero(
                                    VSub(springCall.particle_b.position,
                                         springCall.particle_a.position)))))

\* C25 witness: a Vec2 evaluation with displacement (15, 20), last unit
\* vector (1, 0) and relative velocity along it, strength 0.05 and reduced
\* mass 1/(1/7), in which both terms are finite and non-zero and the
\* distance term differs in its last bits from the claim's product.
C25_Witness ==
    /\ Returned("impulse")
    /\ springCall.locals.distance = <<R(15), R(20)>>
    /\ Between(springCall.locals.unit_vector[1], 59, 61)
    /\ Between(springCall.locals.unit_vector[2], 79, 81)
    /\ springCall.last_impulse_unit = Some(<<One, Zero>>)
    /\ springCall.before.strength = Q(1, 20)
    /\ springCall.particle_b.mass = R(7)
    /\ is_finite(springCall.locals.reduced_mass)
    /\ ~IsZero(springCall.locals.distance_impulse)
    /\ ~IsZero(springCall.locals.velocity_impulse)
    /\ FEq(springCall.locals.velocity_impulse[2], Zero)
    /\ springCall.locals.distance_impulse #
           ComposedDistanceTerm(springCall.before, springCall.timestep,
               springCall.particle_a, springCall.particle_b,
               springCall.locals.distance_length,
               springCall.locals.reduced_mass)

----------------------------------------------------------------------------
(* The direction of damping over consecutive evaluations (Spec). *)

\* The unit vector of the displacement of the evaluation recorded in c.
UnitOfCall(c) ==
    springable_normalize_or_zero(
        VSub(c.particle_b.position, c.particle_a.position))

\* The impulse of the evaluation recorded in c, were its velocity term
\* taken along `direction`.
ImpulseAlong(c, direction) ==
    ComposedImpulse(c.before.spring, c.timestep, c.particle_a, c.particle_b,
        Spring_impulse_locals(c.before.spring, c.timestep, c.particle_a,
            c.particle_b, c.before.last_unit_vector).distance_length,
        Spring_impulse_locals(c.before.spring, c.timestep, c.particle_a,
            c.particle_b, c.before.last_unit_vector).reduced_mass,
        direction)

\* One evaluation of SpringState::impulse: the impulse it returns has its
\* velocity term along the unit vector of its own displacement when no
\* evaluation came before, and along the unit vector of the displacement
\* of the evaluation before it otherwise.
HysteresisStep ==
    (call' # None /\ call' # call) =>
        result'[1].value =
            ImpulseAlong(call'[1],
                IF call = None THEN UnitOfCall(call'[1])
                ELSE UnitOfCall(call[1]))

\* C26: on the first evaluation of a SpringState the velocity term is taken
\* along the unit vector of the current displacement, and on every later
\* evaluation along the unit vector stored by the evaluation immediately
\* before it, not along the current displacement.
C26_DampingHysteresis == [][HysteresisStep]_vars

\* C26 witness: a later evaluation whose stored unit vector differs from
\* the unit vector of its displacement, and whose impulse differs from the
\* one the current unit vector would give.
C26_Witness ==
    /\ call # None
    /\ is_some(call[1].before.last_unit_vector)
    /\ call[1].before.last_unit_vector[1] # UnitOfCall(call[1])
    /\ result[1].value = ImpulseAlong(call[1], call[1].before.last_unit_vector[1])
    /\ result[1].value # ImpulseAlong(call[1], UnitOfCall(call[1]))

----------------------------------------------------------------------------
(* The scalar distance error with rest and limp distance (SpecSpring). *)

\* The displacement of the evaluation recorded in springCall.
CallDisplacement ==
    VSub(springCall.particle_b.position, springCall.particle_a.position)

\* C27 as stated: the scalar distance error is max(0, |displacement| -
\* rest_distance) when |displacement| >= limp_distance and 0 otherwise, so
\* it is never negative.
C27_ErrorNeverNegative ==
    Returned("impulse") =>
        /\ springCall.locals.distance_length =
              IF FGe(Magnitude(CallDisplacement), springCall.before.limp_distance)
              THEN IF FGt(FSub(Magnitude(CallDisplacement),
                               springCall.before.rest_distance), Zero)
                   THEN FSub(Magnitude(CallDisplacement),
                             springCall.before.rest_distance)
                   ELSE Zero
              ELSE Zero
        /\ FGe(springCall.locals.distance_length, Zero)

\* The scalar distance error of the evaluation is as C27 has it with the
\* floor taken away: 0 when |displacement| < limp_distance and
\* |displacement| - rest_distance otherwise, hence negative when
\* limp_distance <= |displacement| < rest_distance; for a non-zero
\* displacement the distance error is then the unit vector of the
\* displacement times that negative number, which pushes the endpoints
\* apart.
ErrorWithoutFloor ==
    /\ springCall.locals.distance_length =
          IF FGe(Magnitude(CallDisplacement), springCall.before.limp_distance)
          THEN FSub(Magnitude(CallDisplacement), springCall.before.rest_distance)
          ELSE Zero
    /\ (/\ FGe(Magnitude(CallDisplacement), springCall.before.limp_distance)
        /\ FLt(Magnitude(CallDisplacement), springCall.before.rest_distance))
          => /\ FLt(springCall.locals.distance_length, Zero)
             /\ FGt(Magnitude(CallDisplacement), Zero) =>
                    springCall.locals.distance_error =
                        VScale(springable_normalize_or_zero(CallDisplacement),
                               springCall.locals.distance_length)

\* C27 amended: for a Vec2 or Vec3 displacement and for an f32 displacement
\* that is not negative, the scalar distance error is |displacement| -
\* rest_distance when |displacement| >= limp_distance and 0 otherwise, with
\* no floor at zero, so it is negative when limp_distance <= |displacement|
\* < rest_distance and the spring then pushes the endpoints apart.
C27_ErrorBelowRestIsNegative ==
    (/\ Returned("impulse")
     /\ (Len(CallDisplacement) > 1 \/ FGe(CallDisplacement[1], Zero)))
    => ErrorWithoutFloor

\* The same for every displacement, the negative f32 ones included: this
\* fails, the f32 springable_length being the signed value (C17, C29).
C27_ErrorWithoutFloorOfAny == Returned("impulse") => ErrorWithoutFloor

\* C27 witness: a Vec2 evaluation with displacement (-15, 0),
\* limp_distance 5 and rest_distance 20, whose scalar distance error is -5
\* and whose distance error is (5, 0).
C27_Witness ==
    /\ Returned("impulse")
    /\ CallDisplacement = <<R(-15), Zero>>
    /\ springCall.before.limp_distance = R(5)
    /\ springCall.before.rest_distance = R(20)
    /\ springCall.locals.distance_length = R(-5)
    /\ VSame(springCall.locals.distance_error, <<R(5), Zero>>)

----------------------------------------------------------------------------
(* The velocity of the translation particle of the adapter (SpecRapier). *)

\* The offset from the center of mass that translation() uses.
OffsetOf(self) ==
    VSub(VZero(self.feature),
         RapierParticleQueryItem_mass(self).prop.local_center_of_mass)

\* linear_velocity + angular_velocity x offset: the cross product in 3D,
\* and angular_velocity * (-offset.y, offset.x) in 2D.
PointVelocity(self) ==
    IF self.feature = 3
    THEN VAdd(RapierParticleQueryItem_velocity(self).velocity.linvel,
              glam_cross(RapierParticleQueryItem_velocity(self).velocity.angvel,
                         OffsetOf(self)))
    ELSE VAdd(RapierParticleQueryItem_velocity(self).velocity.linvel,
              VScale(<<FNeg(OffsetOf(self)[2]), OffsetOf(self)[1]>>,
                     RapierParticleQueryItem_velocity(self).velocity.angvel[1]))

\* C28: the velocity of the translation particle is linear_velocity +
\* angular_velocity x offset in the 3D build and the perpendicular-dot
\* equivalent in the 2D build, so with a non-zero angular velocity and a
\* non-zero center-of-mass offset it differs from the linear velocity.
C28_PointVelocity ==
    ItemReturned("translation") =>
        /\ itemCall.ret.velocity = PointVelocity(itemCall.self)
        /\ (/\ ~IsZero(RapierParticleQueryItem_velocity(itemCall.self).velocity.angvel)
            /\ ~IsZero(OffsetOf(itemCall.self)))
              => itemCall.ret.velocity #
                     RapierParticleQueryItem_velocity(itemCall.self).velocity.linvel

\* What translation() does return: the point velocity in the 3D build, the
\* linear velocity alone in the 2D build; the position of the global
\* transform and the mass of mass() in both.
TranslationParticleReturned ==
    ItemReturned("translation") =>
        /\ itemCall.ret.velocity =
              IF itemCall.self.feature = 3 THEN PointVelocity(itemCall.self)
              ELSE RapierParticleQueryItem_velocity(itemCall.self).velocity.linvel
        /\ itemCall.ret.mass = RapierParticleQueryItem_mass(itemCall.self).prop.mass

\* In the 3D build the point velocity differs from the linear velocity
\* when the angular velocity is not parallel to the offset.
PointVelocity3DDiffers ==
    (/\ ItemReturned("translation")
     /\ itemCall.self.feature = 3
     /\ ~IsZero(glam_cross(
             RapierParticleQueryItem_velocity(itemCall.self).velocity.angvel,
             OffsetOf(itemCall.self))))
    => itemCall.ret.velocity #
           RapierParticleQueryItem_velocity(itemCall.self).velocity.linvel

----------------------------------------------------------------------------
(* A broken spring that is evaluated again (SpecFiring). *)

\* C30: when the evaluation before the last returned Broke and the impulse
\* of the last one has a magnitude below tear_force, with heal_step > 0,
\* the last evaluation left tear below 1.0 and returned Impulse; the
\* SpringState has no field but last_unit_vector, breaking and spring, so
\* nothing in it records that the spring has broken.
C30_BrokeNotLatched ==
    (/\ Len(run) >= 2
     /\ run[Len(run) - 1].tag = "Broke"
     /\ FGt(state.breaking[1].heal_step, Zero)
     /\ FLt(Magnitude(run[Len(run)].value), state.breaking[1].tear_force))
    => /\ FLt(state.breaking[1].tear, One)
       /\ run[Len(run)].tag = "Impulse"
       /\ result = Some(run[Len(run)])
       /\ DOMAIN state = {"last_unit_vector", "breaking", "spring"}

\* C30 witness: two overloads, the second of which returned Broke, then an
\* evaluation of zero impulse that returned Impulse and left tear at 0.99.
C30_Witness ==
    /\ Len(run) = 3
    /\ run[1].tag = "Impulse"
    /\ run[2].tag = "Broke"
    /\ run[3].tag = "Impulse"
    /\ IsZero(run[3].value)
    /\ state.breaking[1].tear = Q(99, 100)

====
